--------------------------- MODULE Spec2Model ---------------------------
(***************************************************************************)
(* The heritage-analysis request handler of src/server/routes/analyze.ts   *)
(* (handleAnalyze and the pure functions it calls), together with the      *)
(* upload form's file checks, as a state machine.                          *)
(*                                                                         *)
(* Strings are sequences of UTF-16 code units, as charCodeAt sees them.    *)
(* An image string, which can be millions of characters long, is the       *)
(* record [head, pad, tail]: the characters of head, then pad copies of    *)
(* the base64 character "A", then the characters of tail.  Every string    *)
(* operation below is computed on the string the record denotes.           *)
(***************************************************************************)
EXTENDS Integers, Sequences, FiniteSets, TLC

-----------------------------------------------------------------------------
(* JavaScript values that are not strings *)

\* The value of a property the JSON body does not carry.
undefined == [kind |-> "undefined"]

\* A JSON value that is truthy and not a string (a number, an array, ...).
nonString == [kind |-> "other"]

Str(s) == [kind |-> "string", s |-> s]

IsString(v) == v.kind = "string"

-----------------------------------------------------------------------------
(* Plain strings *)

Min(a, b) == IF a < b THEN a ELSE b
Max(a, b) == IF a < b THEN b ELSE a

\* String.prototype.toLowerCase on one code unit: the ASCII letters A-Z map
\* to a-z; the other code units used here have no lower-case mapping.
lowerChar(c) == IF c >= 65 /\ c <= 90 THEN c + 32 ELSE c

\* The string as it is, letter case kept.
keepCase(s) == s

toLowerCase(s) == [i \in 1..Len(s) |-> lowerChar(s[i])]

\* String.prototype.includes: sub occurs in s as a contiguous substring.
includes(s, sub) ==
    \E i \in 0..(Len(s) - Len(sub)) :
        \A j \in 1..Len(sub) : s[i + j] = sub[j]

\* Array.prototype.join.
RECURSIVE join(_, _)
join(list, sep) ==
    IF Len(list) = 0 THEN << >>
    ELSE IF Len(list) = 1 THEN list[1]
    ELSE list[1] \o sep \o join(Tail(list), sep)

\* Array.prototype.slice(0, n).
slice(list, n) == SubSeq(list, 1, Min(n, Len(list)))

\* A JavaScript string is truthy unless it is empty.
truthy(s) == Len(s) > 0

-----------------------------------------------------------------------------
(* Image strings *)

\* The code unit of "A", the filler of a padded image string.
PadChar == 65

Image(head, pad, tail) == [head |-> head, pad |-> pad, tail |-> tail]

\* String.prototype.length.
length(img) == Len(img.head) + img.pad + Len(img.tail)

\* charCodeAt(i - 1): the i-th character, 1-based, for 1 <= i <= length.
charAt(img, i) ==
    IF i <= Len(img.head) THEN img.head[i]
    ELSE IF i <= Len(img.head) + img.pad THEN PadChar
    ELSE img.tail[i - Len(img.head) - img.pad]

\* String.prototype.substring(from, to) with 0 <= from <= to: the characters
\* at the 0-based positions from .. to-1, with both ends clamped to the length.
substring(img, from, to) ==
    LET a == Min(from, length(img))
        b == Min(to, length(img))
    IN  [i \in 1..(b - a) |-> charAt(img, a + i)]

\* String.prototype.startsWith.
startsWith(img, prefix) ==
    /\ length(img) >= Len(prefix)
    /\ \A j \in 1..Len(prefix) : charAt(img, j) = prefix[j]

-----------------------------------------------------------------------------
(* 32-bit arithmetic.  A JavaScript number holding an integer n is the     *)
(* record [hi, lo] with n = hi * 2^16 + lo and 0 <= lo < 2^16; an int32    *)
(* has -2^15 <= hi < 2^15.  The split keeps every intermediate value       *)
(* exact: hash * 31 + char needs more than 32 bits.                        *)

Limb == 65536

Num(hi, lo) == [hi |-> hi, lo |-> lo]

\* Carries lo back into 0 .. Limb-1.
normalize(hi, lo) == Num(hi + (lo \div Limb), lo % Limb)

\* ToInt32: the value modulo 2^32, read as a signed 32-bit integer.
toInt32(n) ==
    LET h == n.hi % Limb
    IN  Num(IF h >= Limb \div 2 THEN h - Limb ELSE h, n.lo)

\* hash << 5 on an int32.
shiftLeft5(n) == toInt32(normalize(n.hi * 32, n.lo * 32))

minus(a, b) == normalize(a.hi - b.hi, a.lo - b.lo)

plusChar(a, c) == normalize(a.hi, a.lo + c)

\* Math.abs.
abs(n) == IF n.hi < 0 THEN minus(Num(0, 0), n) ELSE n

\* n % m for a non-negative number n and a small positive m.
mod(n, m) == (((n.hi % m) * (Limb % m)) + n.lo) % m

\* The loop body with hash << 4 in place of hash << 5.
hashStepShift4(hash, char) ==
    LET s4 == toInt32(normalize(hash.hi * 16, hash.lo * 16))
    IN  toInt32(plusChar(minus(s4, hash), char))

\* One pass of the loop body of simpleHash:
\*   hash = (hash << 5) - hash + char;  hash = hash & hash;
hashStep(hash, char) ==
    toInt32(plusChar(minus(shiftLeft5(hash), hash), char))

\* The loop of simpleHash over str[from..to], entered with hash.  The range
\* is folded left to right, the first half before the second.
RECURSIVE hashLoop(_, _, _, _)
hashLoop(str, from, to, hash) ==
    IF from > to THEN hash
    ELSE IF from = to THEN hashStep(hash, str[from])
    ELSE LET mid == (from + to) \div 2
             first == hashLoop(str, from, mid, hash)
         IN  IF first.lo >= 0 THEN hashLoop(str, mid + 1, to, first)
             ELSE first

\* simpleHash: the loop from hash = 0, then Math.abs.
simpleHash(str) == abs(hashLoop(str, 1, Len(str), Num(0, 0)))

-----------------------------------------------------------------------------
(* Image validation *)

\* The string "data:image/".
DataImagePrefix ==
    <<100, 97, 116, 97, 58, 105, 109, 97, 103, 101, 47>>
\* The string "Invalid image format".
InvalidImageFormat ==
    <<73, 110, 118, 97, 108, 105, 100, 32, 105, 109, 97, 103, 101, 32, 102,
      111, 114, 109, 97, 116>>
\* The string "Image file too large".
ImageFileTooLarge ==
    <<73, 109, 97, 103, 101, 32, 102, 105, 108, 101, 32, 116, 111, 111, 32,
      108, 97, 114, 103, 101>>

\* The size limit of validateImage, in bytes.
MaxByteSize == 5 * 1024 * 1024

\* What a call returns, or that it threw.
Return(v) == [threw |-> FALSE, value |-> v]
Throw == [threw |-> TRUE]

\* validateImage with the size checked before the prefix.
validateImageSizeFirst(imageData) ==
    IF ~IsString(imageData) THEN Throw
    ELSE IF length(imageData.s) * 3 > MaxByteSize * 4
    THEN Return([valid |-> FALSE, error |-> ImageFileTooLarge])
    ELSE IF ~startsWith(imageData.s, DataImagePrefix)
    THEN Return([valid |-> FALSE, error |-> InvalidImageFormat])
    ELSE Return([valid |-> TRUE])

\* validateImage.  imageData.startsWith throws a TypeError when imageData is
\* not a string.  byteSize = (imageData.length * 3) / 4 is a fraction in
\* general, so byteSize > limit is compared after multiplying out the
\* division: length * 3 > limit * 4.
validateImage(imageData) ==
    IF ~IsString(imageData) THEN Throw
    ELSE IF ~startsWith(imageData.s, DataImagePrefix)
    THEN Return([valid |-> FALSE, error |-> InvalidImageFormat])
    ELSE IF length(imageData.s) * 3 > MaxByteSize * 4
    THEN Return([valid |-> FALSE, error |-> ImageFileTooLarge])
    ELSE Return([valid |-> TRUE])

-----------------------------------------------------------------------------
(* Visual cue extraction *)

styles ==
    <<<<68, 114, 97, 118, 105, 100, 105, 97, 110>> (* "Dravidian" *),
      <<78, 97, 103, 97, 114, 97>> (* "Nagara" *),
      <<73, 110, 100, 111, 45, 73, 115, 108, 97, 109, 105, 99>> (* "Indo-Islamic" *),
      <<72, 111, 121, 115, 97, 108, 97>> (* "Hoysala" *),
      <<80, 97, 108, 108, 97, 118, 97>> (* "Pallava" *),
      <<67, 104, 111, 108, 97>> (* "Chola" *),
      <<77, 117, 103, 104, 97, 108>> (* "Mughal" *),
      <<82, 97, 106, 112, 117, 116>> (* "Rajput" *)>>

materials ==
    <<<<71, 114, 97, 110, 105, 116, 101>> (* "Granite" *),
      <<83, 97, 110, 100, 115, 116, 111, 110, 101>> (* "Sandstone" *),
      <<77, 97, 114, 98, 108, 101>> (* "Marble" *),
      <<83, 111, 97, 112, 115, 116, 111, 110, 101>> (* "Soapstone" *),
      <<76, 105, 109, 101, 115, 116, 111, 110, 101>> (* "Limestone" *)>>

structures ==
    <<<<71, 111, 112, 117, 114, 97, 109, 115>> (* "Gopurams" *),
      <<80, 105, 108, 108, 97, 114, 115, 32, 119, 105, 116, 104, 32, 108, 111,
          116, 117, 115, 32, 99, 97, 112, 105, 116, 97, 108, 115>> (* "Pillars with lotus capitals" *),
      <<66, 97, 114, 114, 101, 108, 45, 118, 97, 117, 108, 116, 101, 100, 32,
          114, 111, 111, 102, 115>> (* "Barrel-vaulted roofs" *),
      <<83, 116, 97, 114, 45, 115, 104, 97, 112, 101, 100, 32, 112, 108, 97,
          116, 102, 111, 114, 109, 115>> (* "Star-shaped platforms" *),
      <<77, 97, 110, 100, 97, 112, 97, 115>> (* "Mandapas" *),
      <<77, 117, 107, 104, 97, 109, 97, 110, 100, 97, 112, 97>> (* "Mukhamandapa" *),
      <<83, 104, 105, 107, 104, 97, 114, 97>> (* "Shikhara" *)>>

iconography ==
    <<<<68, 105, 118, 105, 110, 101, 32, 100, 101, 105, 116, 105, 101, 115,
        32, 105, 110, 32, 114, 101, 108, 105, 101, 102>> (* "Divine deities in relief" *),
      <<77, 121, 116, 104, 111, 108, 111, 103, 105, 99, 97, 108, 32, 110, 97,
          114, 114, 97, 116, 105, 118, 101, 115>> (* "Mythological narratives" *),
      <<83, 97, 99, 114, 101, 100, 32, 103, 101, 111, 109, 101, 116, 114, 121,
          32, 112, 97, 116, 116, 101, 114, 110, 115>> (* "Sacred geometry patterns" *),
      <<67, 101, 108, 101, 115, 116, 105, 97, 108, 32, 98, 101, 105, 110, 103,
          115>> (* "Celestial beings" *),
      <<65, 110, 105, 109, 97, 108, 32, 109, 111, 116, 105, 102, 115>> (* "Animal motifs" *),
      <<70, 108, 111, 114, 97, 108, 32, 100, 101, 115, 105, 103, 110, 115>> (* "Floral designs" *)>>

carvings ==
    <<<<72, 105, 103, 104, 45, 114, 101, 108, 105, 101, 102, 32, 99, 97, 114,
        118, 105, 110, 103, 115>> (* "High-relief carvings" *),
      <<73, 110, 116, 114, 105, 99, 97, 116, 101, 32, 115, 116, 111, 110, 101,
          32, 119, 111, 114, 107>> (* "Intricate stone work" *),
      <<68, 101, 99, 111, 114, 97, 116, 105, 118, 101, 32, 102, 114, 105, 101,
          122, 101, 115>> (* "Decorative friezes" *),
      <<78, 97, 114, 114, 97, 116, 105, 118, 101, 32, 112, 97, 110, 101, 108,
          115>> (* "Narrative panels" *),
      <<71, 101, 111, 109, 101, 116, 114, 105, 99, 32, 112, 97, 116, 116, 101,
          114, 110, 115>> (* "Geometric patterns" *),
      <<70, 108, 111, 114, 97, 108, 32, 97, 110, 100, 32, 102, 111, 108, 105,
          97, 116, 101, 32, 109, 111, 116, 105, 102, 115>> (* "Floral and foliate motifs" *)>>

periods ==
    <<<<55, 116, 104, 45, 56, 116, 104, 32, 67, 101, 110, 116, 117, 114, 121,
        32, 67, 69>> (* "7th-8th Century CE" *),
      <<57, 116, 104, 45, 49, 48, 116, 104, 32, 67, 101, 110, 116, 117, 114,
          121, 32, 67, 69>> (* "9th-10th Century CE" *),
      <<49, 49, 116, 104, 45, 49, 50, 116, 104, 32, 67, 101, 110, 116, 117,
          114, 121, 32, 67, 69>> (* "11th-12th Century CE" *),
      <<49, 51, 116, 104, 45, 49, 52, 116, 104, 32, 67, 101, 110, 116, 117,
          114, 121, 32, 67, 69>> (* "13th-14th Century CE" *),
      <<49, 53, 116, 104, 45, 49, 54, 116, 104, 32, 67, 101, 110, 116, 117,
          114, 121, 32, 67, 69>> (* "15th-16th Century CE" *)>>

dynasties ==
    <<<<80, 97, 108, 108, 97, 118, 97>> (* "Pallava" *),
      <<67, 104, 111, 108, 97>> (* "Chola" *),
      <<72, 111, 121, 115, 97, 108, 97>> (* "Hoysala" *),
      <<86, 105, 106, 97, 121, 97, 110, 97, 103, 97, 114, 97>> (* "Vijayanagara" *),
      <<77, 117, 103, 104, 97, 108>> (* "Mughal" *),
      <<82, 97, 106, 112, 117, 116>> (* "Rajput" *)>>

\* list[index] of a JavaScript array, index counted from 0: undefined when
\* the array has no such index.
at(list, index) ==
    IF index >= 0 /\ index < Len(list) THEN list[index + 1] ELSE undefined

\* The entries list[(hash + i) % list.length] for i = 0 .. count-1, pushed in
\* that order.
consecutive(list, hash, count) ==
    [k \in 1..count |-> at(list, (mod(hash, Len(list)) + (k - 1)) % Len(list))]

\* Windows laid end to end, none reaching into the next.
windowStartApart ==
    [architecturalStyle |-> 0, materials |-> 1000, structures |-> 1100,
     iconography |-> 1200, carvings |-> 1300, estimatedPeriod |-> 1400,
     estimatedDynasty |-> 1500]

\* The first argument of image.substring in each of the seven functions.
windowStart ==
    [architecturalStyle |-> 0, materials |-> 100, structures |-> 200,
     iconography |-> 300, carvings |-> 400, estimatedPeriod |-> 500,
     estimatedDynasty |-> 600]

\* The second argument of image.substring in each of the seven functions.
windowEnd ==
    [architecturalStyle |-> 1000, materials |-> 1100, structures |-> 1200,
     iconography |-> 1300, carvings |-> 1400, estimatedPeriod |-> 1500,
     estimatedDynasty |-> 1600]

\* simpleHash(image.substring(start, end)) for one category.
imageHashOf(image, category) ==
    simpleHash(substring(image, windowStart[category], windowEnd[category]))

\* detectArchitecturalStyle with the secondary style pushed every time.
detectArchitecturalStyleBoth(image) ==
    LET imageHash == imageHashOf(image, "architecturalStyle")
    IN  <<at(styles, mod(imageHash, Len(styles))),
          at(styles, (mod(imageHash, Len(styles)) + 1) % Len(styles))>>

detectArchitecturalStyle(image) ==
    LET imageHash == imageHashOf(image, "architecturalStyle")
        selected == <<at(styles, mod(imageHash, Len(styles)))>>
    IN  IF mod(imageHash, 3) = 0
        THEN Append(selected, at(styles, (mod(imageHash, Len(styles)) + 1) % Len(styles)))
        ELSE selected

detectMaterials(image) ==
    consecutive(materials, imageHashOf(image, "materials"), 2)

detectStructures(image) ==
    consecutive(structures, imageHashOf(image, "structures"), 3)

detectIconography(image) ==
    consecutive(iconography, imageHashOf(image, "iconography"), 2)

detectCarvings(image) ==
    consecutive(carvings, imageHashOf(image, "carvings"), 2)

estimatePeriod(image) ==
    at(periods, mod(imageHashOf(image, "estimatedPeriod"), Len(periods)))

estimateDynasty(image) ==
    consecutive(dynasties, imageHashOf(image, "estimatedDynasty"), 2)

\* a || b on a string a.
orElse(a, b) == IF truthy(a) THEN a ELSE b

\* text || fallback on the request's text, which may be undefined.
textOrElse(text, fallback) ==
    IF IsString(text) /\ truthy(text.s) THEN text.s ELSE fallback

\* The cues of performVisualAnalysis.
extractCues(image) ==
    [architecturalStyle |-> detectArchitecturalStyle(image),
     materials |-> detectMaterials(image),
     structures |-> detectStructures(image),
     iconography |-> detectIconography(image),
     carvings |-> detectCarvings(image),
     estimatedPeriod |-> estimatePeriod(image),
     estimatedDynasty |-> estimateDynasty(image)]

\* The summary of performVisualAnalysis: the first line of its template and
\* the values interpolated into the template, in the template's order.  The
\* fixed prose between them is the same in every summary and is left out.
visualSummary(cues, text) ==
    LET
        title ==  \* "VISUAL CUE EXTRACTION:"
            <<86, 73, 83, 85, 65, 76, 32, 67, 85, 69, 32, 69, 88, 84, 82, 65,
              67, 84, 73, 79, 78, 58>>
        comma ==  \* ", "
            <<44, 32>>
        noStyle ==  \* "Classical/Traditional"
            <<67, 108, 97, 115, 115, 105, 99, 97, 108, 47, 84, 114, 97, 100,
              105, 116, 105, 111, 110, 97, 108>>
        noMaterials ==  \* "Stone and carved elements"
            <<83, 116, 111, 110, 101, 32, 97, 110, 100, 32, 99, 97, 114, 118,
              101, 100, 32, 101, 108, 101, 109, 101, 110, 116, 115>>
        noStructures ==  \* "Pillars, arches, and ornamental features"
            <<80, 105, 108, 108, 97, 114, 115, 44, 32, 97, 114, 99, 104, 101,
              115, 44, 32, 97, 110, 100, 32, 111, 114, 110, 97, 109, 101, 110,
              116, 97, 108, 32, 102, 101, 97, 116, 117, 114, 101, 115>>
        noIconography ==  \* "Religious and mythological symbols"
            <<82, 101, 108, 105, 103, 105, 111, 117, 115, 32, 97, 110, 100,
              32, 109, 121, 116, 104, 111, 108, 111, 103, 105, 99, 97, 108,
              32, 115, 121, 109, 98, 111, 108, 115>>
        noCarvings ==  \* "Intricate stone carvings"
            <<73, 110, 116, 114, 105, 99, 97, 116, 101, 32, 115, 116, 111,
              110, 101, 32, 99, 97, 114, 118, 105, 110, 103, 115>>
        noContext ==  \* "No additional context provided"
            <<78, 111, 32, 97, 100, 100, 105, 116, 105, 111, 110, 97, 108, 32,
              99, 111, 110, 116, 101, 120, 116, 32, 112, 114, 111, 118, 105,
              100, 101, 100>>
    IN  <<title,
          orElse(join(cues.architecturalStyle, comma), noStyle),
          orElse(join(cues.materials, comma), noMaterials),
          orElse(join(cues.structures, comma), noStructures),
          orElse(join(cues.iconography, comma), noIconography),
          orElse(join(cues.carvings, comma), noCarvings),
          cues.estimatedPeriod,
          join(cues.estimatedDynasty, comma),
          textOrElse(text, noContext)>>

\* performVisualAnalysis with the cues taken from the text and the image
\* together.
performVisualAnalysisOfText(image, text) ==
    LET cues == extractCues(Image(image.head, image.pad,
                                  image.tail \o textOrElse(text, << >>)))
    IN  [summary |-> visualSummary(cues, text), cues |-> cues]

performVisualAnalysis(image, text) ==
    LET cues == extractCues(image)
    IN  [summary |-> visualSummary(cues, text), cues |-> cues]

-----------------------------------------------------------------------------
(* The heritage gate *)

\* The string "person".
KwPerson ==
    <<112, 101, 114, 115, 111, 110>>
\* The string "human".
KwHuman ==
    <<104, 117, 109, 97, 110>>
\* The string "anime".
KwAnime ==
    <<97, 110, 105, 109, 101>>
\* The string "cartoon".
KwCartoon ==
    <<99, 97, 114, 116, 111, 111, 110>>
\* The string "modern building".
KwModernBuilding ==
    <<109, 111, 100, 101, 114, 110, 32, 98, 117, 105, 108, 100, 105, 110,
      103>>
\* The string "house".
KwHouse ==
    <<104, 111, 117, 115, 101>>
\* The string "car".
KwCar ==
    <<99, 97, 114>>
\* The string "animal".
KwAnimal ==
    <<97, 110, 105, 109, 97, 108>>
\* The string "nature".
KwNature ==
    <<110, 97, 116, 117, 114, 101>>
\* The string "landscape".
KwLandscape ==
    <<108, 97, 110, 100, 115, 99, 97, 112, 101>>

nonHeritageKeywords ==
    <<KwPerson, KwHuman, KwAnime, KwCartoon, KwModernBuilding, KwHouse,
      KwCar, KwAnimal, KwNature, KwLandscape>>

\* The string "Contains keywords suggesting non-heritage content: ".
ContainsKeywordsPrefix ==
    <<67, 111, 110, 116, 97, 105, 110, 115, 32, 107, 101, 121, 119, 111, 114,
      100, 115, 32, 115, 117, 103, 103, 101, 115, 116, 105, 110, 103, 32, 110,
      111, 110, 45, 104, 101, 114, 105, 116, 97, 103, 101, 32, 99, 111, 110,
      116, 101, 110, 116, 58, 32>>
\* The string "Image does not show clear heritage architectural elements".
NoClearHeritageElements ==
    <<73, 109, 97, 103, 101, 32, 100, 111, 101, 115, 32, 110, 111, 116, 32,
      115, 104, 111, 119, 32, 99, 108, 101, 97, 114, 32, 104, 101, 114, 105,
      116, 97, 103, 101, 32, 97, 114, 99, 104, 105, 116, 101, 99, 116, 117,
      114, 97, 108, 32, 101, 108, 101, 109, 101, 110, 116, 115>>

\* The positions in nonHeritageKeywords of the keywords lowerText includes.
matchingKeywords(lowerText) ==
    {i \in 1..Len(nonHeritageKeywords) : includes(lowerText, nonHeritageKeywords[i])}

\* The last keyword that matches.
lastOf(hits) == CHOOSE i \in hits : \A j \in hits : i >= j

\* The keyword the for loop returns at: the first one that matches.
firstOf(hits) == CHOOSE i \in hits : \A j \in hits : i <= j

\* The cue test with its comparisons turned round.
someHeritageElements(cues) ==
    Len(cues.architecturalStyle) # 0 \/ Len(cues.structures) # 0

\* cues.architecturalStyle.length === 0 || cues.structures.length === 0
noHeritageElements(cues) ==
    Len(cues.architecturalStyle) = 0 \/ Len(cues.structures) = 0

\* classifyHeritageContent.  text.toLowerCase() throws a TypeError when text
\* is undefined.
classifyHeritageContent(cues, text) ==
    IF ~IsString(text) THEN Throw
    ELSE LET hits == matchingKeywords(toLowerCase(text.s))
         IN  IF hits # {}
             THEN Return([is_heritage |-> FALSE,
                          reason |-> ContainsKeywordsPrefix
                                       \o nonHeritageKeywords[firstOf(hits)]])
             ELSE IF noHeritageElements(cues)
             THEN Return([is_heritage |-> FALSE, reason |-> NoClearHeritageElements])
             ELSE Return([is_heritage |-> TRUE])

-----------------------------------------------------------------------------
(* Hypotheses *)

\* The string "hampi".
KwHampi ==
    <<104, 97, 109, 112, 105>>
\* The string "kanchipuram".
KwKanchipuram ==
    <<107, 97, 110, 99, 104, 105, 112, 117, 114, 97, 109>>
\* The string "jaipur".
KwJaipur ==
    <<106, 97, 105, 112, 117, 114>>
\* The string "Vijayanagara Empire monument with characteristic ornamental pillars and royal court architecture".
HampiHypothesis ==
    <<86, 105, 106, 97, 121, 97, 110, 97, 103, 97, 114, 97, 32, 69, 109, 112,
      105, 114, 101, 32, 109, 111, 110, 117, 109, 101, 110, 116, 32, 119, 105,
      116, 104, 32, 99, 104, 97, 114, 97, 99, 116, 101, 114, 105, 115, 116,
      105, 99, 32, 111, 114, 110, 97, 109, 101, 110, 116, 97, 108, 32, 112,
      105, 108, 108, 97, 114, 115, 32, 97, 110, 100, 32, 114, 111, 121, 97,
      108, 32, 99, 111, 117, 114, 116, 32, 97, 114, 99, 104, 105, 116, 101,
      99, 116, 117, 114, 101>>
\* The string "Pallava or Chola dynasty temple with South Indian Dravidian architectural features".
KanchipuramHypothesis ==
    <<80, 97, 108, 108, 97, 118, 97, 32, 111, 114, 32, 67, 104, 111, 108, 97,
      32, 100, 121, 110, 97, 115, 116, 121, 32, 116, 101, 109, 112, 108, 101,
      32, 119, 105, 116, 104, 32, 83, 111, 117, 116, 104, 32, 73, 110, 100,
      105, 97, 110, 32, 68, 114, 97, 118, 105, 100, 105, 97, 110, 32, 97, 114,
      99, 104, 105, 116, 101, 99, 116, 117, 114, 97, 108, 32, 102, 101, 97,
      116, 117, 114, 101, 115>>
\* The string "Rajput architectural monument with Indo-Islamic influences from the Mughal period".
JaipurHypothesis ==
    <<82, 97, 106, 112, 117, 116, 32, 97, 114, 99, 104, 105, 116, 101, 99,
      116, 117, 114, 97, 108, 32, 109, 111, 110, 117, 109, 101, 110, 116, 32,
      119, 105, 116, 104, 32, 73, 110, 100, 111, 45, 73, 115, 108, 97, 109,
      105, 99, 32, 105, 110, 102, 108, 117, 101, 110, 99, 101, 115, 32, 102,
      114, 111, 109, 32, 116, 104, 101, 32, 77, 117, 103, 104, 97, 108, 32,
      112, 101, 114, 105, 111, 100>>

\* list[0] || fallback: the fallback when the list is empty (list[0] is
\* undefined) or its first entry is the empty string.
firstOr(list, fallback) ==
    IF Len(list) >= 1 /\ truthy(list[1]) THEN list[1] ELSE fallback

\* Six hypotheses with one and the same text.
baseHypothesesAlike(cues) ==
    [i \in 1..6 |-> firstOr(cues.architecturalStyle, << >>)]

baseHypotheses(cues) ==
    LET style == cues.architecturalStyle
        period == cues.estimatedPeriod
        dynasty == cues.estimatedDynasty
        classical ==  \* "Classical"
            <<67, 108, 97, 115, 115, 105, 99, 97, 108>>
        stone ==  \* "stone"
            <<115, 116, 111, 110, 101>>
        pillar ==  \* "pillar"
            <<112, 105, 108, 108, 97, 114>>
        ancientIndian ==  \* "Ancient Indian"
            <<65, 110, 99, 105, 101, 110, 116, 32, 73, 110, 100, 105, 97,
              110>>
        religious ==  \* "religious"
            <<114, 101, 108, 105, 103, 105, 111, 117, 115>>
        decorative ==  \* "decorative"
            <<100, 101, 99, 111, 114, 97, 116, 105, 118, 101>>
        traditional ==  \* "traditional"
            <<116, 114, 97, 100, 105, 116, 105, 111, 110, 97, 108>>
        medieval ==  \* "Medieval"
            <<77, 101, 100, 105, 101, 118, 97, 108>>
        architectural ==  \* "architectural"
            <<97, 114, 99, 104, 105, 116, 101, 99, 116, 117, 114, 97, 108>>
        regional ==  \* "regional"
            <<114, 101, 103, 105, 111, 110, 97, 108>>
        gopuram1 ==  \* " temple gopuram with ornate miniature tiers from the "
            <<32, 116, 101, 109, 112, 108, 101, 32, 103, 111, 112, 117, 114,
              97, 109, 32, 119, 105, 116, 104, 32, 111, 114, 110, 97, 116,
              101, 32, 109, 105, 110, 105, 97, 116, 117, 114, 101, 32, 116,
              105, 101, 114, 115, 32, 102, 114, 111, 109, 32, 116, 104, 101,
              32>>
        monument1 ==  \* "-style sacred monument featuring "
            <<45, 115, 116, 121, 108, 101, 32, 115, 97, 99, 114, 101, 100, 32,
              109, 111, 110, 117, 109, 101, 110, 116, 32, 102, 101, 97, 116,
              117, 114, 105, 110, 103, 32>>
        monument2 ==  \* " with "
            <<32, 119, 105, 116, 104, 32>>
        monument3 ==  \* " construction"
            <<32, 99, 111, 110, 115, 116, 114, 117, 99, 116, 105, 111, 110>>
        dynasty1 ==  \* "Heritage structure attributed to the "
            <<72, 101, 114, 105, 116, 97, 103, 101, 32, 115, 116, 114, 117,
              99, 116, 117, 114, 101, 32, 97, 116, 116, 114, 105, 98, 117,
              116, 101, 100, 32, 116, 111, 32, 116, 104, 101, 32>>
        dynasty2 ==  \* " dynasty, showcasing "
            <<32, 100, 121, 110, 97, 115, 116, 121, 44, 32, 115, 104, 111,
              119, 99, 97, 115, 105, 110, 103, 32>>
        dynasty3 ==  \* " iconography"
            <<32, 105, 99, 111, 110, 111, 103, 114, 97, 112, 104, 121>>
        facade1 ==  \* "Rock-cut or carved temple facade with "
            <<82, 111, 99, 107, 45, 99, 117, 116, 32, 111, 114, 32, 99, 97,
              114, 118, 101, 100, 32, 116, 101, 109, 112, 108, 101, 32, 102,
              97, 99, 97, 100, 101, 32, 119, 105, 116, 104, 32>>
        facade2 ==  \* " elements typical of "
            <<32, 101, 108, 101, 109, 101, 110, 116, 115, 32, 116, 121, 112,
              105, 99, 97, 108, 32, 111, 102, 32>>
        facade3 ==  \* " construction"
            <<32, 99, 111, 110, 115, 116, 114, 117, 99, 116, 105, 111, 110>>
        fortress1 ==  \* "Fortified palace or fortress with "
            <<70, 111, 114, 116, 105, 102, 105, 101, 100, 32, 112, 97, 108,
              97, 99, 101, 32, 111, 114, 32, 102, 111, 114, 116, 114, 101,
              115, 115, 32, 119, 105, 116, 104, 32>>
        fortress2 ==  \* " military architecture from the "
            <<32, 109, 105, 108, 105, 116, 97, 114, 121, 32, 97, 114, 99, 104,
              105, 116, 101, 99, 116, 117, 114, 101, 32, 102, 114, 111, 109,
              32, 116, 104, 101, 32>>
        fortress3 ==  \* " period"
            <<32, 112, 101, 114, 105, 111, 100>>
        pilgrimage1 ==  \* "Sacred pilgrimage site featuring "
            <<83, 97, 99, 114, 101, 100, 32, 112, 105, 108, 103, 114, 105,
              109, 97, 103, 101, 32, 115, 105, 116, 101, 32, 102, 101, 97,
              116, 117, 114, 105, 110, 103, 32>>
        pilgrimage2 ==  \* " elements unique to "
            <<32, 101, 108, 101, 109, 101, 110, 116, 115, 32, 117, 110, 105,
              113, 117, 101, 32, 116, 111, 32>>
        pilgrimage3 ==  \* " temple design"
            <<32, 116, 101, 109, 112, 108, 101, 32, 100, 101, 115, 105, 103,
              110>>
    IN  <<firstOr(style, classical) \o gopuram1 \o period,
          firstOr(style, classical) \o monument1
            \o firstOr(cues.materials, stone) \o monument2
            \o firstOr(cues.structures, pillar) \o monument3,
          dynasty1 \o firstOr(dynasty, ancientIndian) \o dynasty2
            \o firstOr(cues.iconography, religious) \o dynasty3,
          facade1 \o firstOr(cues.carvings, decorative) \o facade2
            \o period \o facade3,
          fortress1 \o firstOr(style, traditional) \o fortress2
            \o firstOr(dynasty, medieval) \o fortress3,
          pilgrimage1 \o firstOr(cues.structures, architectural)
            \o pilgrimage2 \o firstOr(dynasty, regional) \o pilgrimage3>>

\* locationHypothesis with the keyword looked for in the text as typed.
locationHypothesisAsTyped(text, keyword, hypothesis) ==
    IF truthy(text) /\ includes(text, keyword)
    THEN <<hypothesis>> ELSE << >>

\* The hypothesis pushed when text is truthy and its lower-cased form
\* includes keyword; nothing otherwise.
locationHypothesis(text, keyword, hypothesis) ==
    IF truthy(text) /\ includes(toLowerCase(text), keyword)
    THEN <<hypothesis>> ELSE << >>

\* generateHypotheses with the location hypotheses pushed before the
\* templates.
generateHypothesesLocationFirst(cues, text) ==
    slice(locationHypothesis(text, KwHampi, HampiHypothesis)
            \o locationHypothesis(text, KwKanchipuram, KanchipuramHypothesis)
            \o locationHypothesis(text, KwJaipur, JaipurHypothesis)
            \o slice(baseHypotheses(cues), 5),
          8)

\* generateHypotheses, called with a string text.
generateHypotheses(cues, text) ==
    slice(slice(baseHypotheses(cues), 5)
            \o locationHypothesis(text, KwHampi, HampiHypothesis)
            \o locationHypothesis(text, KwKanchipuram, KanchipuramHypothesis)
            \o locationHypothesis(text, KwJaipur, JaipurHypothesis),
          8)

-----------------------------------------------------------------------------
(* Evidence and the three agents.  A generated text is the sequence of its  *)
(* template's first line and the values interpolated into the template;    *)
(* the rest of a template's prose is the same in every text.               *)

retrieveEvidence(hypotheses, text) ==
    LET
        title ==  \* "CONTEXTUAL EVIDENCE SUMMARY:"
            <<67, 79, 78, 84, 69, 88, 84, 85, 65, 76, 32, 69, 86, 73, 68, 69,
              78, 67, 69, 32, 83, 85, 77, 77, 65, 82, 89, 58>>
        context1 ==  \* "User-provided context: \""
            <<85, 115, 101, 114, 45, 112, 114, 111, 118, 105, 100, 101, 100,
              32, 99, 111, 110, 116, 101, 120, 116, 58, 32, 34>>
        context2 ==  \* "\" suggests regional heritage knowledge"
            <<34, 32, 115, 117, 103, 103, 101, 115, 116, 115, 32, 114, 101,
              103, 105, 111, 110, 97, 108, 32, 104, 101, 114, 105, 116, 97,
              103, 101, 32, 107, 110, 111, 119, 108, 101, 100, 103, 101>>
        placement ==  \* "Regional placement would help narrow down exact identification"
            <<82, 101, 103, 105, 111, 110, 97, 108, 32, 112, 108, 97, 99, 101,
              109, 101, 110, 116, 32, 119, 111, 117, 108, 100, 32, 104, 101,
              108, 112, 32, 110, 97, 114, 114, 111, 119, 32, 100, 111, 119,
              110, 32, 101, 120, 97, 99, 116, 32, 105, 100, 101, 110, 116,
              105, 102, 105, 99, 97, 116, 105, 111, 110>>
    IN  <<title,
          IF truthy(text) THEN context1 \o text \o context2 ELSE placement>>

analyzeArchitectural(cues, hypotheses, evidence) ==
    LET
        opening ==  \* "The monument displays "
            <<84, 104, 101, 32, 109, 111, 110, 117, 109, 101, 110, 116, 32,
              100, 105, 115, 112, 108, 97, 121, 115, 32>>
        and ==  \* " and "
            <<32, 97, 110, 100, 32>>
        comma ==  \* ", "
            <<44, 32>>
        slash ==  \* "/"
            <<47>>
    IN  <<opening,
          join(cues.architecturalStyle, and),
          join(cues.structures, comma),
          join(cues.materials, comma),
          cues.estimatedPeriod,
          join(cues.estimatedDynasty, slash),
          cues.architecturalStyle[1],
          cues.iconography[1],
          cues.carvings[1]>>

analyzeCultural(cues, hypotheses, evidence) ==
    LET
        title ==  \* "MYTHOLOGICAL AND RELIGIOUS CONTEXT:"
            <<77, 89, 84, 72, 79, 76, 79, 71, 73, 67, 65, 76, 32, 65, 78, 68,
              32, 82, 69, 76, 73, 71, 73, 79, 85, 83, 32, 67, 79, 78, 84, 69,
              88, 84, 58>>
    IN  <<title>>

-----------------------------------------------------------------------------
(* Verification scores.  Confidence values before rounding are counted in  *)
(* steps of 1/Unit; a draw d of Math.random() * 30 is the value d / Unit.  *)

Unit == 2

\* The values Math.random() * 30 takes in the model: the least, the middle
\* and the greatest of the steps below 30.
Draws == {0, 15 * Unit, 30 * Unit - 1}

\* Math.round of v / Unit: the nearest integer, halves rounded up.
round(v) == (2 * v + Unit) \div (2 * Unit)

\* A Map, as the sequence of its [key, value] entries in insertion order.
\* Map.prototype.set replaces the value of a key the map has and appends
\* the entry of a key it has not.
mapSet(map, key, value) ==
    IF \E i \in 1..Len(map) : map[i][1] = key
    THEN [i \in 1..Len(map) |->
            IF map[i][1] = key THEN <<key, value>> ELSE map[i]]
    ELSE Append(map, <<key, value>>)

\* confidenceOf without the clamp to [50, 95].
confidenceOfUnclamped(hyp, cues, draw) ==
    LET base == 60 * Unit + draw
        boosted ==
            IF \E i \in 1..Len(cues.architecturalStyle) :
                   includes(hyp, cues.architecturalStyle[i])
            THEN base + 10 * Unit
            ELSE base
    IN  round(boosted)

\* confidenceOf with the 10 never added.
confidenceOfUnboosted(hyp, cues, draw) ==
    round(Min(95 * Unit, Max(50 * Unit, 60 * Unit + draw)))

\* confidenceOf with the 10 added for every hypothesis.
confidenceOfAlwaysBoosted(hyp, cues, draw) ==
    round(Min(95 * Unit, Max(50 * Unit, 60 * Unit + draw + 10 * Unit)))

\* The confidence verifyAndRank stores for hyp when Math.random() * 30
\* comes out as draw / Unit.
confidenceOf(hyp, cues, draw) ==
    LET base == 60 * Unit + draw
        boosted ==
            IF \E i \in 1..Len(cues.architecturalStyle) :
                   includes(hyp, cues.architecturalStyle[i])
            THEN base + 10 * Unit
            ELSE base
    IN  round(Min(95 * Unit, Max(50 * Unit, boosted)))

\* The forEach loop of verifyAndRank over hypotheses[1..n].
RECURSIVE scoreAll(_, _, _, _)
scoreAll(hypotheses, cues, draws, n) ==
    IF n = 0 THEN << >>
    ELSE mapSet(scoreAll(hypotheses, cues, draws, n - 1),
                hypotheses[n],
                confidenceOf(hypotheses[n], cues, draws[n]))

\* verifyAndRank; draws[i] is the i-th value of Math.random() * 30.
verifyAndRank(hypotheses, cues, evidence, draws) ==
    LET
        title ==  \* "VERIFICATION AND RANKING ANALYSIS:"
            <<86, 69, 82, 73, 70, 73, 67, 65, 84, 73, 79, 78, 32, 65, 78, 68,
              32, 82, 65, 78, 75, 73, 78, 71, 32, 65, 78, 65, 76, 89, 83, 73,
              83, 58>>
    IN  [summary |-> <<title>>,
         scores |-> scoreAll(hypotheses, cues, draws, Len(hypotheses))]

-----------------------------------------------------------------------------
(* Ranking *)

\* The decimal digits of a non-negative integer, as String(n) writes them.
RECURSIVE digits(_)
digits(n) ==
    IF n < 10 THEN <<48 + n>> ELSE Append(digits(n \div 10), 48 + (n % 10))

generateSummary(hypothesis, confidence) ==
    LET
        opening ==  \* "This monument is most likely a "
            <<84, 104, 105, 115, 32, 109, 111, 110, 117, 109, 101, 110, 116,
              32, 105, 115, 32, 109, 111, 115, 116, 32, 108, 105, 107, 101,
              108, 121, 32, 97, 32>>
    IN  <<opening, hypothesis, digits(confidence)>>

generateNarrative(hypothesis, confidence) ==
    LET
        opening ==  \* "If this monument belongs to the tradition described as \""
            <<73, 102, 32, 116, 104, 105, 115, 32, 109, 111, 110, 117, 109,
              101, 110, 116, 32, 98, 101, 108, 111, 110, 103, 115, 32, 116,
              111, 32, 116, 104, 101, 32, 116, 114, 97, 100, 105, 116, 105,
              111, 110, 32, 100, 101, 115, 99, 114, 105, 98, 101, 100, 32, 97,
              115, 32, 34>>
    IN  <<opening, hypothesis>>

\* entry put in front of the entries whose confidence equals its own.
insertBeforeEqual(sorted, entry) ==
    LET before == {i \in 1..Len(sorted) : sorted[i][2] > entry[2]}
        k == Cardinality(before)
    IN  SubSeq(sorted, 1, k) \o <<entry>> \o SubSeq(sorted, k + 1, Len(sorted))

\* entry put into a list sorted by (a, b) => b[1] - a[1]: behind every entry
\* whose confidence is at least its own, so equal entries keep their order.
insertDescending(sorted, entry) ==
    LET before == {i \in 1..Len(sorted) : sorted[i][2] >= entry[2]}
        k == Cardinality(before)
    IN  SubSeq(sorted, 1, k) \o <<entry>> \o SubSeq(sorted, k + 1, Len(sorted))

\* The entries with the lowest confidence first.
RECURSIVE sortAscending(_)
sortAscending(entries) ==
    IF Len(entries) = 0 THEN << >>
    ELSE LET sorted == sortAscending(SubSeq(entries, 1, Len(entries) - 1))
             entry == entries[Len(entries)]
             k == Cardinality({i \in 1..Len(sorted) : sorted[i][2] <= entry[2]})
         IN  SubSeq(sorted, 1, k) \o <<entry>> \o SubSeq(sorted, k + 1, Len(sorted))

\* The entries left in insertion order.
insertionOrder(entries) == entries

\* Array.prototype.sort with the comparator (a, b) => b[1] - a[1]; the sort
\* is stable.
RECURSIVE sortDescending(_)
sortDescending(entries) ==
    IF Len(entries) = 0 THEN << >>
    ELSE insertDescending(sortDescending(SubSeq(entries, 1, Len(entries) - 1)),
                          entries[Len(entries)])

\* generateRankedInterpretations with slice(5) in place of slice(0, 5).
generateRankedInterpretationsFrom5(hypotheses, scores) ==
    LET all == sortDescending(scores)
        sorted == SubSeq(all, 6, Len(all))
    IN  [idx \in 1..Len(sorted) |->
            [rank |-> idx,
             hypothesis |-> sorted[idx][1],
             confidence |-> sorted[idx][2],
             summary |-> generateSummary(sorted[idx][1], sorted[idx][2]),
             narrative |-> generateNarrative(sorted[idx][1], sorted[idx][2])]]

generateRankedInterpretations(hypotheses, scores) ==
    LET sorted == slice(sortDescending(scores), 5)
    IN  [idx \in 1..Len(sorted) |->
            [rank |-> idx,
             hypothesis |-> sorted[idx][1],
             confidence |-> sorted[idx][2],
             summary |-> generateSummary(sorted[idx][1], sorted[idx][2]),
             narrative |-> generateNarrative(sorted[idx][1], sorted[idx][2])]]

-----------------------------------------------------------------------------
(* Requests *)

\* The string "data:text/plain;base64,abc".
TextPlainAbc ==
    <<100, 97, 116, 97, 58, 116, 101, 120, 116, 47, 112, 108, 97, 105, 110,
      59, 98, 97, 115, 101, 54, 52, 44, 97, 98, 99>>
\* The string "data:text/plain;base64,".
TextPlainPrefix ==
    <<100, 97, 116, 97, 58, 116, 101, 120, 116, 47, 112, 108, 97, 105, 110,
      59, 98, 97, 115, 101, 54, 52, 44>>
\* The string "data:image/jpeg;base64,".
JpegPrefix ==
    <<100, 97, 116, 97, 58, 105, 109, 97, 103, 101, 47, 106, 112, 101, 103,
      59, 98, 97, 115, 101, 54, 52, 44>>
\* The string "data:image/png;base64,iVBORw0KGgo".
SmallPng ==
    <<100, 97, 116, 97, 58, 105, 109, 97, 103, 101, 47, 112, 110, 103, 59, 98,
      97, 115, 101, 54, 52, 44, 105, 86, 66, 79, 82, 119, 48, 75, 71, 103,
      111>>
\* The string "data:image/jpeg;base64,/9j/4AAQSkZJRg".
SmallJpeg ==
    <<100, 97, 116, 97, 58, 105, 109, 97, 103, 101, 47, 106, 112, 101, 103,
      59, 98, 97, 115, 101, 54, 52, 44, 47, 57, 106, 47, 52, 65, 65, 81, 83,
      107, 90, 74, 82, 103>>
\* The string "data:image/webp;base64,UklGR".
SmallWebp ==
    <<100, 97, 116, 97, 58, 105, 109, 97, 103, 101, 47, 119, 101, 98, 112,
      59, 98, 97, 115, 101, 54, 52, 44, 85, 107, 108, 71, 82>>
\* The greatest length validateImage accepts: length * 3 / 4 <= MaxByteSize.
MaxLength == (MaxByteSize * 4) \div 3

\* The base64 length of a payload of n bytes, padded to a multiple of 4.
base64Length(n) == 4 * ((n + 2) \div 3)

\* "data:image/jpeg;base64," followed by n characters "A".
JpegOf(n) == Image(JpegPrefix, n, << >>)

\* Image strings without the "data:image/" prefix: the plain-text data URL,
\* the empty string, and a plain-text data URL over the size limit.
InvalidImages ==
    {Image(TextPlainAbc, 0, << >>),
     Image(<< >>, 0, << >>),
     Image(TextPlainPrefix, MaxLength, << >>)}

\* Image strings over the size limit: one character too long, and the data
\* URLs of payloads of MaxByteSize bytes and of one byte more.
LargeImages ==
    {JpegOf(MaxLength + 1 - Len(JpegPrefix)),
     Image(JpegPrefix, base64Length(MaxByteSize) - 1, <<61>> (* "=" *)),
     JpegOf(base64Length(MaxByteSize + 1))}

\* Image strings that pass validateImage: the bare prefix, three short data
\* URLs (the last with a style hash that is a multiple of 3), one that fills
\* every hash window, and one of the greatest length.
ValidImages ==
    {Image(DataImagePrefix, 0, << >>),
     Image(SmallPng, 0, << >>),
     Image(SmallJpeg, 0, << >>),
     Image(SmallWebp, 0, << >>),
     JpegOf(2000),
     JpegOf(MaxLength - Len(JpegPrefix))}

-----------------------------------------------------------------------------
(* The upload form.  A file is its MIME type and its size in bytes; its     *)
(* bytes are all zero, which base64 writes as "A".                          *)

\* The string "image/".
ImageSlash ==
    <<105, 109, 97, 103, 101, 47>>
\* The string "image/jpeg".
MimeJpeg ==
    <<105, 109, 97, 103, 101, 47, 106, 112, 101, 103>>
\* The string "text/plain".
MimeTextPlain ==
    <<116, 101, 120, 116, 47, 112, 108, 97, 105, 110>>

\* The size limit of the form, in bytes.
MaxFileSize == 5 * 1024 * 1024

\* FileReader.readAsDataURL: "data:", the MIME type, ";base64," and the
\* base64 of the bytes, 4 characters for every 3 bytes, the last group
\* filled up with "=".
readAsDataURL(file) ==
    LET dataColon ==  \* "data:"
            <<100, 97, 116, 97, 58>>
        base64Comma ==  \* ";base64,"
            <<59, 98, 97, 115, 101, 54, 52, 44>>
        filled == (3 - (file.size % 3)) % 3
    IN  Image(dataColon \o file.type \o base64Comma,
              base64Length(file.size) - filled,
              [i \in 1..filled |-> 61])

\* handleImageUpload of the form: the data URL it keeps as uploadedImage, or
\* nothing (a toast is shown) when the file is over the limit or its type
\* does not start with "image/".
handleImageUpload(file) ==
    IF file.size > MaxFileSize THEN [accepted |-> FALSE]
    ELSE IF ~(Len(file.type) >= Len(ImageSlash)
              /\ SubSeq(file.type, 1, Len(ImageSlash)) = ImageSlash)
    THEN [accepted |-> FALSE]
    ELSE [accepted |-> TRUE, uploadedImage |-> readAsDataURL(file)]

\* The files put into the form: a small one, the largest whose data URL
\* validateImage accepts and the next larger, one of the form's limit and
\* one byte over it, each as a JPEG image and as plain text.
Files ==
    [type : {MimeJpeg, MimeTextPlain},
     size : {1500, 5242860, 5242861, MaxFileSize, MaxFileSize + 1}]

\* The data URLs the form sends.
UploadedImages ==
    {handleImageUpload(file).uploadedImage :
        file \in {file \in Files : handleImageUpload(file).accepted}}

\* The string "".
EmptyText ==
    << >>
\* The string "a photo of my dog in the park".
DogInThePark ==
    <<97, 32, 112, 104, 111, 116, 111, 32, 111, 102, 32, 109, 121, 32, 100,
      111, 103, 32, 105, 110, 32, 116, 104, 101, 32, 112, 97, 114, 107>>
\* The string "ancient temple".
AncientTemple ==
    <<97, 110, 99, 105, 101, 110, 116, 32, 116, 101, 109, 112, 108, 101>>
\* The string "animal".
AnimalLower ==
    <<97, 110, 105, 109, 97, 108>>
\* The string "An ANIMAL Statue".
AnimalMixed ==
    <<65, 110, 32, 65, 78, 73, 77, 65, 76, 32, 83, 116, 97, 116, 117, 101>>
\* The string "person with an animal".
PersonAndAnimal ==
    <<112, 101, 114, 115, 111, 110, 32, 119, 105, 116, 104, 32, 97, 110, 32,
      97, 110, 105, 109, 97, 108>>
\* The string "temple carving".
TempleCarving ==
    <<116, 101, 109, 112, 108, 101, 32, 99, 97, 114, 118, 105, 110, 103>>
\* The string "Hampi temple".
HampiTemple ==
    <<72, 97, 109, 112, 105, 32, 116, 101, 109, 112, 108, 101>>
\* The string "hampi Kanchipuram JAIPUR".
ThreePlaces ==
    <<104, 97, 109, 112, 105, 32, 75, 97, 110, 99, 104, 105, 112, 117, 114,
      97, 109, 32, 74, 65, 73, 80, 85, 82>>

\* The string "Hampi hampi".
HampiTwice ==
    <<72, 97, 109, 112, 105, 32, 104, 97, 109, 112, 105>>
\* The string "jaiHampipur".
JaiHampiPur ==
    <<106, 97, 105, 72, 97, 109, 112, 105, 112, 117, 114>>

\* Texts sent with every image.
CommonTexts ==
    {undefined, Str(EmptyText), Str(DogInThePark), Str(AnimalLower),
     Str(PersonAndAnimal)}

\* Texts sent with the short PNG only.
MoreTexts ==
    {Str(AncientTemple), Str(AnimalMixed), Str(TempleCarving),
     Str(HampiTemple), Str(ThreePlaces), Str(HampiTwice), Str(JaiHampiPur)}

ImageValues ==
    {undefined, nonString}
      \cup {Str(i) : i \in InvalidImages \cup LargeImages \cup ValidImages
                           \cup UploadedImages}

\* req.body: undefined when no body was parsed, else the parsed JSON object.
Bodies ==
    {undefined}
      \cup {[kind |-> "object", image |-> i, text |-> t] :
              i \in ImageValues, t \in CommonTexts}
      \cup {[kind |-> "object", image |-> Str(Image(SmallPng, 0, << >>)),
             text |-> t] : t \in MoreTexts}

\* The bodies of two requests handled side by side.
PairBodies ==
    {[kind |-> "object", image |-> Str(Image(SmallPng, 0, << >>)), text |-> t] :
        t \in {undefined, Str(EmptyText), Str(AnimalLower)}}
      \cup {[kind |-> "object", image |-> Str(Image(SmallJpeg, 0, << >>)),
             text |-> Str(EmptyText)]}

Requests == {1, 2}

-----------------------------------------------------------------------------
(* The handler, one request at a time or two side by side *)

VARIABLES
    req,                    \* req[r].body of request r
    pc,                     \* where handleAnalyze stands for request r
    image, text,            \* the destructured body
    visualAnalysis, hypotheses, evidence,
    architecturalAnalysis, culturalAnalysis, verificationAnalysis,
    rankedInterpretations,  \* the locals of handleAnalyze
    res,                    \* the responses sent for request r, in order
    stages,                 \* the stages run for request r, in order
    randomValues,           \* the values Math.random() * 30 can take
    str, hash               \* a direct call of simpleHash and its result

locals ==
    <<image, text, visualAnalysis, hypotheses, evidence,
      architecturalAnalysis, culturalAnalysis, verificationAnalysis,
      rankedInterpretations>>

vars == <<req, pc, locals, res, stages, randomValues, str, hash>>

\* The value of a local that has not been assigned.
none == [kind |-> "none"]

\* The string "No image provided".
NoImageProvided ==
    <<78, 111, 32, 105, 109, 97, 103, 101, 32, 112, 114, 111, 118, 105, 100,
      101, 100>>
\* The string "Analysis failed".
AnalysisFailed ==
    <<65, 110, 97, 108, 121, 115, 105, 115, 32, 102, 97, 105, 108, 101, 100>>

\* !value of a JavaScript value.
falsy(value) ==
    \/ value.kind = "undefined"
    \/ value.kind = "string" /\ length(value.s) = 0

\* res.status(status).json(body) for request r.
send(r, status, body) ==
    res' = [res EXCEPT ![r] = Append(@, [status |-> status, body |-> body])]

goto(r, label) == pc' = [pc EXCEPT ![r] = label]

ran(r, stage) == stages' = [stages EXCEPT ![r] = Append(@, stage)]

\* The pipeline is untouched by a direct call of simpleHash and the other
\* way round.
InitLocals ==
    /\ image = [r \in Requests |-> none]
    /\ text = [r \in Requests |-> none]
    /\ visualAnalysis = [r \in Requests |-> none]
    /\ hypotheses = [r \in Requests |-> << >>]
    /\ evidence = [r \in Requests |-> << >>]
    /\ architecturalAnalysis = [r \in Requests |-> << >>]
    /\ culturalAnalysis = [r \in Requests |-> << >>]
    /\ verificationAnalysis = [r \in Requests |-> none]
    /\ rankedInterpretations = [r \in Requests |-> << >>]
    /\ res = [r \in Requests |-> << >>]
    /\ stages = [r \in Requests |-> << >>]

\* One request arrives; the other request slot stays idle.
Init ==
    /\ req \in {[r \in Requests |-> [body |-> IF r = 1 THEN b ELSE undefined]] :
                  b \in Bodies}
    /\ pc = [r \in Requests |-> IF r = 1 THEN "entry" ELSE "idle"]
    /\ InitLocals
    /\ randomValues = Draws
    /\ str = << >>
    /\ hash = none

\* const { image, text } = req.body  (line 6, before the try block): throws
\* a TypeError when req.body is undefined, which rejects the promise the
\* async handler returns; nothing is sent.
Destructure(r) ==
    /\ pc[r] = "entry"
    /\ IF req[r].body.kind = "undefined"
       THEN /\ goto(r, "rejected")
            /\ UNCHANGED <<image, text>>
       ELSE /\ image' = [image EXCEPT ![r] = req[r].body.image]
            /\ text' = [text EXCEPT ![r] = req[r].body.text]
            /\ goto(r, "checkImage")
    /\ ran(r, "destructure")
    /\ UNCHANGED <<req, visualAnalysis, hypotheses, evidence,
                   architecturalAnalysis, culturalAnalysis,
                   verificationAnalysis, rankedInterpretations, res,
                   randomValues, str, hash>>

\* if (!image) return res.status(400).json(...)
CheckImage(r) ==
    /\ pc[r] = "checkImage"
    /\ IF falsy(image[r])
       THEN /\ send(r, 400, [is_valid |-> FALSE, is_heritage |-> FALSE,
                             error |-> NoImageProvided])
            /\ goto(r, "done")
       ELSE /\ goto(r, "validate")
            /\ UNCHANGED res
    /\ ran(r, "checkImage")
    /\ UNCHANGED <<req, locals, randomValues, str, hash>>

\* Step 1: validateImage(image).
Validate(r) ==
    /\ pc[r] = "validate"
    /\ LET imageValidation == validateImage(image[r])
       IN  IF imageValidation.threw
           THEN /\ goto(r, "catch")
                /\ UNCHANGED res
           ELSE IF ~imageValidation.value.valid
           THEN /\ send(r, 400, [is_valid |-> FALSE, is_heritage |-> FALSE,
                                 error |-> imageValidation.value.error])
                /\ goto(r, "done")
           ELSE /\ goto(r, "visual")
                /\ UNCHANGED res
    /\ ran(r, "validate")
    /\ UNCHANGED <<req, locals, randomValues, str, hash>>

\* Step 2 with the analysis kept in one place for all requests, as a
\* module-level variable would be.
VisualAnalysisShared(r) ==
    /\ pc[r] = "visual"
    /\ visualAnalysis' =
         [q \in Requests |-> performVisualAnalysis(image[r].s, text[r])]
    /\ goto(r, "classify")
    /\ ran(r, "visual")
    /\ UNCHANGED <<req, image, text, hypotheses, evidence,
                   architecturalAnalysis, culturalAnalysis,
                   verificationAnalysis, rankedInterpretations, res,
                   randomValues, str, hash>>

\* Step 2: performVisualAnalysis(image, text).
VisualAnalysis(r) ==
    /\ pc[r] = "visual"
    /\ visualAnalysis' =
         [visualAnalysis EXCEPT ![r] = performVisualAnalysis(image[r].s, text[r])]
    /\ goto(r, "classify")
    /\ ran(r, "visual")
    /\ UNCHANGED <<req, image, text, hypotheses, evidence,
                   architecturalAnalysis, culturalAnalysis,
                   verificationAnalysis, rankedInterpretations, res,
                   randomValues, str, hash>>

\* Step 3: classifyHeritageContent(visualAnalysis.cues, text).
Classify(r) ==
    /\ pc[r] = "classify"
    /\ LET heritageCheck == classifyHeritageContent(visualAnalysis[r].cues, text[r])
       IN  IF heritageCheck.threw
           THEN /\ goto(r, "catch")
                /\ UNCHANGED res
           ELSE IF ~heritageCheck.value.is_heritage
           THEN /\ send(r, 200, [is_valid |-> TRUE, is_heritage |-> FALSE,
                                 error |-> heritageCheck.value.reason])
                /\ goto(r, "done")
           ELSE /\ goto(r, "hypotheses")
                /\ UNCHANGED res
    /\ ran(r, "classify")
    /\ UNCHANGED <<req, locals, randomValues, str, hash>>

\* Step 4: generateHypotheses(visualAnalysis.cues, text).
GenerateHypotheses(r) ==
    /\ pc[r] = "hypotheses"
    /\ hypotheses' =
         [hypotheses EXCEPT ![r] = generateHypotheses(visualAnalysis[r].cues, text[r].s)]
    /\ goto(r, "evidence")
    /\ ran(r, "hypotheses")
    /\ UNCHANGED <<req, image, text, visualAnalysis, evidence,
                   architecturalAnalysis, culturalAnalysis,
                   verificationAnalysis, rankedInterpretations, res,
                   randomValues, str, hash>>

\* Step 5: retrieveEvidence(hypotheses, text).
RetrieveEvidence(r) ==
    /\ pc[r] = "evidence"
    /\ evidence' = [evidence EXCEPT ![r] = retrieveEvidence(hypotheses[r], text[r].s)]
    /\ goto(r, "architectural")
    /\ ran(r, "evidence")
    /\ UNCHANGED <<req, image, text, visualAnalysis, hypotheses,
                   architecturalAnalysis, culturalAnalysis,
                   verificationAnalysis, rankedInterpretations, res,
                   randomValues, str, hash>>

\* Step 6, first agent: analyzeArchitectural.
AnalyzeArchitectural(r) ==
    /\ pc[r] = "architectural"
    /\ architecturalAnalysis' =
         [architecturalAnalysis EXCEPT ![r] =
            analyzeArchitectural(visualAnalysis[r].cues, hypotheses[r], evidence[r])]
    /\ goto(r, "cultural")
    /\ ran(r, "architectural")
    /\ UNCHANGED <<req, image, text, visualAnalysis, hypotheses, evidence,
                   culturalAnalysis, verificationAnalysis,
                   rankedInterpretations, res, randomValues, str, hash>>

\* Step 6, second agent: analyzeCultural.
AnalyzeCultural(r) ==
    /\ pc[r] = "cultural"
    /\ culturalAnalysis' =
         [culturalAnalysis EXCEPT ![r] =
            analyzeCultural(visualAnalysis[r].cues, hypotheses[r], evidence[r])]
    /\ goto(r, "verify")
    /\ ran(r, "cultural")
    /\ UNCHANGED <<req, image, text, visualAnalysis, hypotheses, evidence,
                   architecturalAnalysis, verificationAnalysis,
                   rankedInterpretations, res, randomValues, str, hash>>

\* Step 6, third agent: verifyAndRank, with one call of Math.random for
\* each hypothesis.
VerifyAndRank(r) ==
    /\ pc[r] = "verify"
    /\ \E draws \in [1..Len(hypotheses[r]) -> randomValues] :
         verificationAnalysis' =
           [verificationAnalysis EXCEPT ![r] =
              verifyAndRank(hypotheses[r], visualAnalysis[r].cues, evidence[r], draws)]
    /\ goto(r, "rank")
    /\ ran(r, "verify")
    /\ UNCHANGED <<req, image, text, visualAnalysis, hypotheses, evidence,
                   architecturalAnalysis, culturalAnalysis,
                   rankedInterpretations, res, randomValues, str, hash>>

\* Step 7: generateRankedInterpretations(hypotheses, scores).
Rank(r) ==
    /\ pc[r] = "rank"
    /\ rankedInterpretations' =
         [rankedInterpretations EXCEPT ![r] =
            generateRankedInterpretations(hypotheses[r], verificationAnalysis[r].scores)]
    /\ goto(r, "respond")
    /\ ran(r, "rank")
    /\ UNCHANGED <<req, image, text, visualAnalysis, hypotheses, evidence,
                   architecturalAnalysis, culturalAnalysis,
                   verificationAnalysis, res, randomValues, str, hash>>

\* res.json(result) with the full result (lines 69-83).
Respond(r) ==
    /\ pc[r] = "respond"
    /\ send(r, 200,
            [visual_analysis |-> visualAnalysis[r].summary,
             hypotheses |-> hypotheses[r],
             evidence |-> evidence[r],
             agent_analyses |->
               [architectural |-> architecturalAnalysis[r],
                cultural |-> culturalAnalysis[r],
                verification |-> verificationAnalysis[r].summary],
             ranked_interpretations |-> rankedInterpretations[r],
             is_heritage |-> TRUE,
             is_valid |-> TRUE])
    /\ goto(r, "done")
    /\ ran(r, "respond")
    /\ UNCHANGED <<req, locals, randomValues, str, hash>>

\* The catch block (lines 84-91).
Catch(r) ==
    /\ pc[r] = "catch"
    /\ send(r, 500, [is_valid |-> FALSE, is_heritage |-> FALSE,
                     error |-> AnalysisFailed])
    /\ goto(r, "done")
    /\ ran(r, "catch")
    /\ UNCHANGED <<req, locals, randomValues, str, hash>>

Next ==
    \E r \in Requests :
        \/ Destructure(r)
        \/ CheckImage(r)
        \/ Validate(r)
        \/ VisualAnalysis(r)
        \/ Classify(r)
        \/ GenerateHypotheses(r)
        \/ RetrieveEvidence(r)
        \/ AnalyzeArchitectural(r)
        \/ AnalyzeCultural(r)
        \/ VerifyAndRank(r)
        \/ Rank(r)
        \/ Respond(r)
        \/ Catch(r)

Spec == Init /\ [][Next]_vars

-----------------------------------------------------------------------------
(* Two requests side by side.  Math.random is left two values so that the  *)
(* two pipelines can be interleaved in every order.                        *)

PairDraws == {0, 30 * Unit - 1}

PairInit ==
    /\ req \in [Requests -> {[body |-> b] : b \in PairBodies}]
    /\ pc = [r \in Requests |-> "entry"]
    /\ InitLocals
    /\ randomValues = PairDraws
    /\ str = << >>
    /\ hash = none

SpecPair == PairInit /\ [][Next]_vars

-----------------------------------------------------------------------------
(* simpleHash called on its own *)

\* The longest string hashed directly.
MaxHashLength == 6

\* The code units of the strings hashed directly: "A", "z" and 0xFFFF.
HashAlphabet == {PadChar, 122, Limb - 1}

HashInputs == UNION {[1..n -> HashAlphabet] : n \in 0..MaxHashLength}

HashInit ==
    /\ req = [r \in Requests |-> [body |-> undefined]]
    /\ pc = [r \in Requests |-> "idle"]
    /\ InitLocals
    /\ randomValues = Draws
    /\ str \in HashInputs
    /\ hash = none

CallSimpleHash ==
    /\ hash = none
    /\ hash' = simpleHash(str)
    /\ UNCHANGED <<req, pc, locals, res, stages, randomValues, str>>

SpecHash == HashInit /\ [][CallSimpleHash]_vars

-----------------------------------------------------------------------------
(* What the properties below talk about *)

\* handleAnalyze has returned or thrown for request r.
finished(r) == pc[r] \in {"done", "rejected"}

\* Exactly one response was sent for request r, with this status.
answered(r, status) == Len(res[r]) = 1 /\ res[r][1].status = status

AnalysisFields ==
    {"visual_analysis", "hypotheses", "evidence", "agent_analyses",
     "ranked_interpretations"}

\* A generated text has at least one character.
nonEmptyText(t) == \E i \in 1..Len(t) : Len(t[i]) > 0

\* The analysis fields of a response body are all there and none is empty.
fullAnalysis(b) ==
    /\ AnalysisFields \subseteq DOMAIN b
    /\ nonEmptyText(b.visual_analysis)
    /\ Len(b.hypotheses) > 0
    /\ nonEmptyText(b.evidence)
    /\ nonEmptyText(b.agent_analyses.architectural)
    /\ nonEmptyText(b.agent_analyses.cultural)
    /\ nonEmptyText(b.agent_analyses.verification)
    /\ Len(b.ranked_interpretations) > 0

noAnalysis(b) == AnalysisFields \cap DOMAIN b = {}

\* Request r carried a string image that validateImage accepts.
validImage(r) ==
    /\ req[r].body.kind = "object"
    /\ req[r].body.image.kind = "string"
    /\ validateImage(req[r].body.image).value.valid

\* Request r carried a valid image and a string text: it reaches the gate.
gated(r) == validImage(r) /\ req[r].body.text.kind = "string"

\* The gate turned request r down.
turnedDown(r) ==
    /\ answered(r, 200)
    /\ res[r][1].body.is_valid
    /\ ~res[r][1].body.is_heritage

\* Request r was answered with the full analysis and no error.
succeeded(r) ==
    /\ answered(r, 200)
    /\ res[r][1].body.is_valid
    /\ res[r][1].body.is_heritage
    /\ fullAnalysis(res[r][1].body)
    /\ "error" \notin DOMAIN res[r][1].body

\* The string "invalid".
WordInvalid ==
    <<105, 110, 118, 97, 108, 105, 100>>
\* The string "format".
WordFormat ==
    <<102, 111, 114, 109, 97, 116>>

\* C1: every response body has the result shape: not valid means not
\* heritage and no analysis field; valid and not heritage means an error and
\* no analysis field; the analysis fields are present and non-empty exactly
\* when both flags are true.
C1_ResultShape ==
    \A r \in Requests : \A k \in 1..Len(res[r]) :
        LET b == res[r][k].body
        IN  /\ ~b.is_valid => ~b.is_heritage /\ noAnalysis(b)
            /\ (b.is_valid /\ ~b.is_heritage) =>
                 /\ "error" \in DOMAIN b
                 /\ Len(b.error) > 0
                 /\ noAnalysis(b)
            /\ fullAnalysis(b) <=> (b.is_valid /\ b.is_heritage)
            /\ ~(b.is_valid /\ b.is_heritage) => noAnalysis(b)

\* C1 witness: a request was answered with both flags true and the analysis.
C1_Witness == \E r \in Requests : pc[r] = "done" /\ succeeded(r)

\* The request of r makes a stage throw: the body is undefined, the image is
\* a truthy non-string, or the text of a valid image is not a string.
throws(r) ==
    LET b == req[r].body
    IN  \/ b.kind = "undefined"
        \/ /\ b.kind = "object"
           /\ ~falsy(b.image)
           /\ \/ b.image.kind # "string"
              \/ validImage(r) /\ b.text.kind # "string"

\* The image of r is missing or validateImage returns valid: false for it.
refused(r) ==
    LET b == req[r].body
    IN  /\ b.kind = "object"
        /\ \/ falsy(b.image)
           \/ b.image.kind = "string" /\ ~validateImage(b.image).value.valid

\* C2: a finished request was answered with 400 exactly when its image is
\* missing or fails validateImage, with 500 exactly when a stage threw, and
\* with 200 otherwise (full analysis or gate rejection).
C2_StatusCodes ==
    \A r \in Requests : finished(r) =>
        /\ answered(r, 400) <=> refused(r)
        /\ answered(r, 500) <=> throws(r)
        /\ answered(r, 200) <=> (~refused(r) /\ ~throws(r))
        /\ answered(r, 200) => (succeeded(r) \/ turnedDown(r))

\* error mentions the invalid format.
mentionsInvalidFormat(error) ==
    /\ includes(toLowerCase(error), WordInvalid)
    /\ includes(toLowerCase(error), WordFormat)

\* The image of r is a string without the "data:image/" prefix.
wrongPrefix(r) ==
    /\ req[r].body.kind = "object"
    /\ req[r].body.image.kind = "string"
    /\ ~startsWith(req[r].body.image.s, DataImagePrefix)

invalidFormatAnswer(r) ==
    /\ Len(res[r]) = 1
    /\ ~res[r][1].body.is_valid
    /\ mentionsInvalidFormat(res[r][1].body.error)
    /\ noAnalysis(res[r][1].body)

\* C3 as stated: every image string without the prefix, of any content and
\* length, is answered is_valid = false with the invalid-format error.
C3_AnyStringInvalidFormat ==
    \A r \in Requests : (finished(r) /\ wrongPrefix(r)) => invalidFormatAnswer(r)

\* C3 as amended: every non-empty image string without the prefix, of any
\* content and length (over the size limit too), is answered is_valid =
\* false with the invalid-format error and no analysis field.
C3_NonEmptyInvalidFormat ==
    \A r \in Requests :
        (finished(r) /\ wrongPrefix(r) /\ length(req[r].body.image.s) > 0)
            => invalidFormatAnswer(r)

\* C3 witness: an image without the prefix and over the size limit was
\* answered with the invalid-format error.
C3_Witness ==
    \E r \in Requests :
        /\ finished(r) /\ wrongPrefix(r)
        /\ length(req[r].body.image.s) * 3 > MaxByteSize * 4
        /\ invalidFormatAnswer(r)

\* The number of characters behind the first comma of a data URL (44 is the
\* code unit of the comma): its base64 payload.
payloadLength(img) ==
    LET commas == {i \in 1..Len(img.head) : img.head[i] = 44}
    IN  IF commas = {} THEN 0
        ELSE length(img) - (CHOOSE i \in commas : \A j \in commas : i <= j)

\* The bytes a base64 payload decodes to: 3 for every 4 characters, less
\* the "=" characters (code unit 61) at its end.
decodedBytes(img) ==
    (payloadLength(img) \div 4) * 3
        - Cardinality({i \in 1..Len(img.tail) : img.tail[i] = 61})

tooLargeAnswer(r) ==
    /\ Len(res[r]) = 1
    /\ ~res[r][1].body.is_valid
    /\ res[r][1].body.error = ImageFileTooLarge

\* C4: an image with the prefix is answered too large exactly when its
\* payload's estimate, payload length * 3 / 4, exceeds 5 MiB; a payload that
\* decodes to exactly 5 MiB passes.
C4_PayloadSizeLimit ==
    \A r \in Requests :
        (finished(r) /\ req[r].body.kind = "object"
           /\ req[r].body.image.kind = "string"
           /\ startsWith(req[r].body.image.s, DataImagePrefix)) =>
            LET img == req[r].body.image.s
            IN  /\ tooLargeAnswer(r) <=> (payloadLength(img) * 3 > MaxByteSize * 4)
                /\ decodedBytes(img) = MaxByteSize => ~tooLargeAnswer(r)

\* The ten disqualifying keywords of the specification.
TenKeywords ==
    {KwPerson, KwHuman, KwAnime, KwCartoon, KwModernBuilding, KwHouse, KwCar,
     KwAnimal, KwNature, KwLandscape}

\* s, with A-Z taken as a-z, has one of the ten keywords as a substring.
hasKeyword(s) ==
    LET lowered == [j \in 1..Len(s) |-> IF s[j] \in 65..90 THEN s[j] + 32 ELSE s[j]]
    IN  \E k \in TenKeywords :
            \E i \in 1..(Len(s) - Len(k) + 1) :
                \A j \in 1..Len(k) : lowered[i + j - 1] = k[j]

\* The gate has decided request r.
classified(r) == gated(r) /\ pc[r] \notin {"entry", "checkImage", "validate", "visual", "classify"}

\* C5: for a valid image and a string text, the gate turns the request down
\* if and only if the lower-cased text has one of the ten keywords as a
\* substring or the style or structures cues are empty; otherwise the
\* request goes on and its answer carries no reason.
C5_GateIffKeyword ==
    \A r \in Requests : classified(r) =>
        /\ turnedDown(r) <=>
             \/ hasKeyword(req[r].body.text.s)
             \/ Len(visualAnalysis[r].cues.architecturalStyle) = 0
             \/ Len(visualAnalysis[r].cues.structures) = 0
        /\ ~turnedDown(r) =>
             /\ pc[r] # "catch"
             /\ pc[r] = "done" => succeeded(r)

\* C5 witness: the gate turned down a text with a keyword in capitals.
C5_Witness ==
    \E r \in Requests :
        /\ classified(r) /\ pc[r] = "done"
        /\ turnedDown(r) /\ req[r].body.text.s = AnimalMixed

\* text has "animal" in it, in any letter case.
saysAnimal(r) ==
    /\ req[r].body.text.kind = "string"
    /\ includes(toLowerCase(req[r].body.text.s), KwAnimal)

\* The keywords the gate tries before "animal".
EarlierKeywords ==
    {KwPerson, KwHuman, KwAnime, KwCartoon, KwModernBuilding, KwHouse, KwCar}

dogPhoto(r) == gated(r) /\ req[r].body.text.s = DogInThePark

\* C7 as stated: "a photo of my dog in the park" with a valid image is
\* answered is_heritage = false with an error that cites "animal".
C7_DogPhotoTurnedDown ==
    \A r \in Requests : (dogPhoto(r) /\ finished(r)) =>
        /\ ~res[r][1].body.is_heritage
        /\ "error" \in DOMAIN res[r][1].body
        /\ includes(res[r][1].body.error, KwAnimal)

\* C7 as amended: "a photo of my dog in the park" has none of the ten
\* keywords in it, so with a valid image it passes the gate and is answered
\* is_valid = true, is_heritage = true with the analysis and no error.
C7_DogPhotoPasses ==
    \A r \in Requests : dogPhoto(r) =>
        /\ ~hasKeyword(DogInThePark)
        /\ classified(r) => ~turnedDown(r)
        /\ finished(r) => succeeded(r)

\* C7 witness: the dog photo text was answered with the full analysis.
C7_Witness == \E r \in Requests : dogPhoto(r) /\ finished(r) /\ succeeded(r)

\* C8: whatever goes wrong, the handler ends by sending one response with
\* the is_valid and is_heritage flags; it never ends by throwing.
C8_NoExceptionEscapes ==
    \A r \in Requests :
        /\ pc[r] # "rejected"
        /\ finished(r) =>
             /\ Len(res[r]) = 1
             /\ {"is_valid", "is_heritage"} \subseteq DOMAIN res[r][1].body

\* C9: requests with the same image have the same cues, whatever their
\* texts; requests with the same image and text also have the same visual
\* summary, hypotheses, evidence and agent texts.
C9_Deterministic ==
    \A r1, r2 \in Requests :
        /\ (req[r1].body.image = req[r2].body.image
              /\ visualAnalysis[r1] # none /\ visualAnalysis[r2] # none)
             => visualAnalysis[r1].cues = visualAnalysis[r2].cues
        /\ (req[r1].body = req[r2].body /\ pc[r1] = pc[r2]) =>
             /\ visualAnalysis[r1] # none =>
                  visualAnalysis[r1].summary = visualAnalysis[r2].summary
             /\ hypotheses[r1] = hypotheses[r2]
             /\ evidence[r1] = evidence[r2]
             /\ architecturalAnalysis[r1] = architecturalAnalysis[r2]
             /\ culturalAnalysis[r1] = culturalAnalysis[r2]
             /\ verificationAnalysis[r1] # none =>
                  verificationAnalysis[r1].summary = verificationAnalysis[r2].summary
             /\ pc[r1] = "done" =>
                  /\ res[r1][1].status = res[r2][1].status
                  /\ DOMAIN res[r1][1].body = DOMAIN res[r2][1].body
                  /\ succeeded(r1) =>
                       /\ res[r1][1].body.visual_analysis = res[r2][1].body.visual_analysis
                       /\ res[r1][1].body.hypotheses = res[r2][1].body.hypotheses
                       /\ res[r1][1].body.evidence = res[r2][1].body.evidence
                       /\ res[r1][1].body.agent_analyses = res[r2][1].body.agent_analyses

\* C9 witness: two requests with the same image and text were both answered
\* in full, with different rankings.
C9_Witness ==
    \E r1, r2 \in Requests :
        /\ r1 # r2
        /\ req[r1].body = req[r2].body
        /\ succeeded(r1) /\ succeeded(r2)
        /\ res[r1][1].body.ranked_interpretations
             # res[r2][1].body.ranked_interpretations

\* hash = (hash * 31 + char) mod 2^32 on an unsigned 32-bit value.
polyStep(u, c) ==
    LET low == u.lo * 31 + c
    IN  Num((u.hi * 31 + (low \div Limb)) % Limb, low % Limb)

RECURSIVE polyHash(_)
polyHash(s) ==
    IF Len(s) = 0 THEN Num(0, 0)
    ELSE polyStep(polyHash(SubSeq(s, 1, Len(s) - 1)), s[Len(s)])

\* C10 as stated: simpleHash returns the absolute value of the accumulation
\* of hash = (hash * 31 + charCode) mod 2^32 from 0, a value in 0 .. 2^32-1.
C10_HashIsPolynomialMod ==
    hash # none => hash = polyHash(str)

\* C10 as amended: simpleHash returns the absolute value of that
\* accumulation wrapped to a signed 32-bit integer: with p the accumulation
\* mod 2^32, the result is p when p < 2^31 and 2^32 - p otherwise, a
\* non-negative integer of at most 2^31.
C10_HashIsSignedWrap ==
    hash # none =>
        LET p == polyHash(str)
        IN  /\ hash = IF p.hi >= Limb \div 2 THEN minus(Num(Limb, 0), p) ELSE p
            /\ hash.hi >= 0 /\ hash.lo >= 0
            /\ hash.hi < Limb \div 2 \/ hash = Num(Limb \div 2, 0)

\* C10 witness: a string whose accumulation is 2^31 or more was hashed.
C10_Witness == hash # none /\ polyHash(str).hi >= Limb \div 2

-----------------------------------------------------------------------------
(* Cue extraction *)

\* The entries of a list.
Range(list) == {list[i] : i \in DOMAIN list}

\* The image string request r carried.
imageOf(r) == req[r].body.image.s

\* performVisualAnalysis has returned for request r.
extracted(r) == visualAnalysis[r] # none

\* list has count entries and each is an entry of vocabulary.
drawnFrom(list, count, vocabulary) ==
    /\ Len(list) = count
    /\ \A i \in 1..Len(list) : list[i] \in Range(vocabulary)

\* C11: for every image string that reaches cue extraction, down to the
\* bare prefix "data:image/", architecturalStyle has 1 or 2 entries (2
\* exactly when the style hash mod 3 is 0, the second being
\* styles[(hash + 1) mod 8]), materials 2, structures 3, iconography 2,
\* carvings 2 and estimatedDynasty 2 entries, estimatedPeriod is one label,
\* every entry is an entry of its category's vocabulary, and cue extraction
\* does not throw.
C11_CuesFromVocabulary ==
    \A r \in Requests :
        /\ pc[r] = "classify" =>
             LET cues == visualAnalysis[r].cues
                 styleHash == simpleHash(substring(imageOf(r), 0, 1000))
                 first == mod(styleHash, 8)
             IN  /\ Len(cues.architecturalStyle) =
                      IF mod(styleHash, 3) = 0 THEN 2 ELSE 1
                 /\ cues.architecturalStyle[1] = styles[first + 1]
                 /\ mod(styleHash, 3) = 0 =>
                      cues.architecturalStyle[2] = styles[((first + 1) % 8) + 1]
        /\ extracted(r) =>
             LET cues == visualAnalysis[r].cues
             IN  /\ Len(cues.architecturalStyle) \in {1, 2}
                 /\ \A i \in 1..Len(cues.architecturalStyle) :
                      cues.architecturalStyle[i] \in Range(styles)
                 /\ drawnFrom(cues.materials, 2, materials)
                 /\ drawnFrom(cues.structures, 3, structures)
                 /\ drawnFrom(cues.iconography, 2, iconography)
                 /\ drawnFrom(cues.carvings, 2, carvings)
                 /\ drawnFrom(cues.estimatedDynasty, 2, dynasties)
                 /\ cues.estimatedPeriod \in Range(periods)
        /\ (validImage(r) /\ pc[r] \in {"catch", "done"}) => extracted(r)

\* C11 witness: the cues of the bare prefix "data:image/", shorter than
\* every window but the first, were extracted and the request was answered.
C11_Witness ==
    \E r \in Requests :
        /\ extracted(r)
        /\ imageOf(r) = Image(DataImagePrefix, 0, << >>)
        /\ Len(visualAnalysis[r].cues.structures) = 3
        /\ pc[r] = "done"

\* The seven cue categories, in the order performVisualAnalysis fills them.
Categories ==
    <<"architecturalStyle", "materials", "structures", "iconography",
      "carvings", "estimatedPeriod", "estimatedDynasty">>

\* The character positions of img, counted from 0, that go into the hash
\* of category: substring stops at the end of the string.
hashedPositions(img, category) ==
    windowStart[category] .. (Min(windowEnd[category], length(img)) - 1)

\* C12 as stated: the seven categories are hashed over distinct fixed
\* windows of the image that are pairwise non-overlapping: no character
\* position goes into the hash of more than one category.
C12_WindowsDisjoint ==
    \A r \in Requests : pc[r] = "classify" =>
        \A i, j \in 1..Len(Categories) : i # j =>
            hashedPositions(imageOf(r), Categories[i])
              \cap hashedPositions(imageOf(r), Categories[j]) = {}

\* C12 as amended: category number k (from 0, in the order style,
\* materials, structures, iconography, carvings, period, dynasty) is hashed
\* over the positions 100 k up to 100 k + 1000, cut at the end of the string;
\* the windows are distinct and each overlaps the next by 900 positions, so
\* every position from 600 to 999 goes into all seven hashes.
C12_WindowsOverlap ==
    \A r \in Requests : pc[r] = "classify" =>
        LET len == length(imageOf(r))
        IN  /\ \A i \in 1..Len(Categories) :
                 hashedPositions(imageOf(r), Categories[i])
                   = (100 * (i - 1)) .. (Min(100 * (i - 1) + 1000, len) - 1)
            /\ \A i, j \in 1..Len(Categories) : i < j =>
                 /\ windowStart[Categories[i]] # windowStart[Categories[j]]
                 /\ hashedPositions(imageOf(r), Categories[i])
                      \cap hashedPositions(imageOf(r), Categories[j])
                      = (100 * (j - 1)) .. (Min(100 * (i - 1) + 1000, len) - 1)
            /\ \A p \in 600..(Min(1000, len) - 1) : \A i \in 1..Len(Categories) :
                 p \in hashedPositions(imageOf(r), Categories[i])

\* C12 witness: the cues of an image that fills every window were
\* extracted; position 600 is in the first window and in the last.
C12_Witness ==
    \E r \in Requests :
        /\ pc[r] = "classify"
        /\ length(imageOf(r)) >= 1600
        /\ 600 \in hashedPositions(imageOf(r), "architecturalStyle")
                     \cap hashedPositions(imageOf(r), "estimatedDynasty")

-----------------------------------------------------------------------------
(* Hypotheses *)

\* generateHypotheses has returned for request r.
generated(r) == Len(hypotheses[r]) > 0

\* The text of request r, lower-cased.
lowerText(r) == toLowerCase(req[r].body.text.s)

\* The location keywords with their hypotheses, in the order they are tried.
Locations ==
    <<[keyword |-> KwHampi, hypothesis |-> HampiHypothesis],
      [keyword |-> KwKanchipuram, hypothesis |-> KanchipuramHypothesis],
      [keyword |-> KwJaipur, hypothesis |-> JaipurHypothesis]>>

\* The hypotheses of the location keywords that lowered contains, in keyword
\* order.
RECURSIVE locationsIn(_, _)
locationsIn(lowered, from) ==
    IF from > Len(Locations) THEN << >>
    ELSE (IF includes(lowered, Locations[from].keyword)
          THEN <<Locations[from].hypothesis>> ELSE << >>)
           \o locationsIn(lowered, from + 1)

\* C13: generateHypotheses returns between 5 and 8 hypotheses: the first
\* five template hypotheses in template order (the sixth template is never
\* returned), then one fixed hypothesis for each of hampi, kanchipuram,
\* jaipur found in the lower-cased text, in that keyword order.
C13_TemplatesThenLocations ==
    \A r \in Requests : generated(r) =>
        LET templates == baseHypotheses(visualAnalysis[r].cues)
            added == locationsIn(lowerText(r), 1)
        IN  /\ Len(hypotheses[r]) \in 5..8
            /\ Len(hypotheses[r]) = 5 + Len(added)
            /\ \A i \in 1..5 : hypotheses[r][i] = templates[i]
            /\ \A i \in 1..Len(added) : hypotheses[r][5 + i] = added[i]
            /\ templates[6] \notin Range(hypotheses[r])

\* C13 witness: a text with all three keywords, in mixed letter case, gave
\* eight hypotheses.
C13_Witness ==
    \E r \in Requests :
        /\ generated(r)
        /\ req[r].body.text = Str(ThreePlaces)
        /\ Len(hypotheses[r]) = 8

\* The string "Vijayanagara".
Vijayanagara ==
    <<86, 105, 106, 97, 121, 97, 110, 97, 103, 97, 114, 97>>

\* The offsets, counted from 0, at which keyword occurs in lowered.
occurrences(lowered, keyword) ==
    {i \in 0..(Len(lowered) - Len(keyword)) :
        \A j \in 1..Len(keyword) : lowered[i + j] = keyword[j]}

\* s without the count characters that follow offset i.
removeAt(s, i, count) == SubSeq(s, 1, i) \o SubSeq(s, i + count + 1, Len(s))

\* list without its entry number i.
without(list, i) == SubSeq(list, 1, i - 1) \o SubSeq(list, i + 1, Len(list))

\* The text of request r has "hampi" in some letter case and its
\* hypotheses were generated.
hampiGenerated(r) == generated(r) /\ includes(lowerText(r), KwHampi)

\* C14 as stated: a text that contains "Hampi" in any letter case yields
\* exactly one more hypothesis than the same text with that occurrence
\* removed, the added hypothesis contains "Vijayanagara", and there are
\* never more than 8 hypotheses.
C14_OneMoreThanRemoved ==
    \A r \in Requests : hampiGenerated(r) =>
        \A i \in occurrences(lowerText(r), KwHampi) :
            LET rest == removeAt(req[r].body.text.s, i, Len(KwHampi))
                fewer == generateHypotheses(visualAnalysis[r].cues, rest)
            IN  /\ Len(hypotheses[r]) = Len(fewer) + 1
                /\ \E k \in 1..Len(hypotheses[r]) :
                     /\ includes(hypotheses[r][k], Vijayanagara)
                     /\ without(hypotheses[r], k) = fewer
                /\ Len(hypotheses[r]) <= 8

\* C14 as amended: a text that contains "Hampi" in any letter case and
\* passes the gate yields the sixth hypothesis, which contains
\* "Vijayanagara"; compared with the same text with one occurrence removed
\* (as long as that text passes the gate and has the same of the keywords
\* kanchipuram and jaipur), it yields exactly that one hypothesis more when
\* no "hampi" is left, and the same hypotheses when another occurrence is
\* left; there are never more than 8 hypotheses.
C14_OneMoreWhenNoneLeft ==
    \A r \in Requests : hampiGenerated(r) =>
        /\ Len(hypotheses[r]) \in 6..8
        /\ hypotheses[r][6] = HampiHypothesis
        /\ includes(hypotheses[r][6], Vijayanagara)
        /\ \A i \in occurrences(lowerText(r), KwHampi) :
            LET rest == removeAt(req[r].body.text.s, i, Len(KwHampi))
                lowered == toLowerCase(rest)
                fewer == generateHypotheses(visualAnalysis[r].cues, rest)
                sameOthers ==
                    /\ includes(lowered, KwKanchipuram)
                         <=> includes(lowerText(r), KwKanchipuram)
                    /\ includes(lowered, KwJaipur)
                         <=> includes(lowerText(r), KwJaipur)
            IN  (sameOthers /\ ~hasKeyword(rest)) =>
                    IF includes(lowered, KwHampi)
                    THEN hypotheses[r] = fewer
                    ELSE without(hypotheses[r], 6) = fewer

\* C14 witness: "Hampi temple" gave six hypotheses, the sixth with
\* "Vijayanagara", where "temple" alone gives five.
C14_Witness ==
    \E r \in Requests :
        /\ hampiGenerated(r)
        /\ req[r].body.text = Str(HampiTemple)
        /\ Len(hypotheses[r]) = 6
        /\ includes(hypotheses[r][6], Vijayanagara)
        /\ Len(generateHypotheses(visualAnalysis[r].cues,
                                  removeAt(HampiTemple, 0, 5))) = 5

-----------------------------------------------------------------------------
(* Scores and ranking *)

\* verifyAndRank has returned for request r.
verified(r) == verificationAnalysis[r] # none

\* generateRankedInterpretations has returned for request r.
ranked(r) == pc[r] \in {"respond", "done"} /\ verified(r)

\* The confidence values request r has emitted: those of its local
\* rankedInterpretations and those of the ranked_interpretations it sent.
emitted(r) ==
    {rankedInterpretations[r][i].confidence :
        i \in 1..Len(rankedInterpretations[r])}
      \cup UNION {{res[r][k].body.ranked_interpretations[i].confidence :
                     i \in 1..Len(res[r][k].body.ranked_interpretations)} :
                  k \in {k \in 1..Len(res[r]) :
                           "ranked_interpretations" \in DOMAIN res[r][k].body}}

\* C15: every confidence value in ranked_interpretations, and every value
\* stored in the score map of verifyAndRank, is an integer from 50 to 95,
\* whatever Math.random returns and whatever the hypothesis.
C15_ConfidenceBounds ==
    \A r \in Requests :
        /\ emitted(r) \subseteq 50..95
        /\ verified(r) =>
             \A i \in 1..Len(verificationAnalysis[r].scores) :
                 verificationAnalysis[r].scores[i][2] \in 50..95

\* C15 witness: a response carries the confidence 95, which only the upper
\* clamp produces (the greatest draw plus the boost is above 95).
C15_Witness ==
    \E r \in Requests :
        /\ pc[r] = "done"
        /\ succeeded(r)
        /\ 95 \in emitted(r)
        /\ 30 * Unit - 1 \in randomValues

\* C16: the ranked interpretations are sorted by confidence in
\* non-increasing order, are at most 5, and carry the ranks 1, 2, ..., n,
\* the rank being the position counted from 1.
C16_RankedSorted ==
    \A r \in Requests :
        LET list == rankedInterpretations[r]
        IN  /\ Len(list) <= 5
            /\ \A i \in 1..Len(list) : list[i].rank = i
            /\ \A i, j \in 1..Len(list) :
                 i < j => list[i].confidence >= list[j].confidence
            /\ \A k \in 1..Len(res[r]) :
                 "ranked_interpretations" \in DOMAIN res[r][k].body =>
                     res[r][k].body.ranked_interpretations = list

\* C16 witness: a score map whose first entry has a lower score than a later
\* one was ranked, and the ranking was sent.
C16_Witness ==
    \E r \in Requests :
        /\ pc[r] = "done"
        /\ succeeded(r)
        /\ \E i \in 2..Len(verificationAnalysis[r].scores) :
             verificationAnalysis[r].scores[1][2]
               < verificationAnalysis[r].scores[i][2]
        /\ Len(rankedInterpretations[r]) = 5

\* The text of request r is a string without any of the ten keywords.
passesGate(r) == gated(r) /\ ~hasKeyword(req[r].body.text.s)

\* C17: a valid image with a text that passes the gate is answered with
\* is_valid = true, is_heritage = true and exactly 5 ranked interpretations;
\* the hypotheses are pairwise distinct strings, so the score map has one
\* entry for each hypothesis.
C17_FiveRanked ==
    \A r \in Requests : passesGate(r) =>
        /\ \A i, j \in 1..Len(hypotheses[r]) :
             i # j => hypotheses[r][i] # hypotheses[r][j]
        /\ verified(r) =>
             Len(verificationAnalysis[r].scores) = Len(hypotheses[r])
        /\ ranked(r) => Len(rankedInterpretations[r]) = 5
        /\ pc[r] = "done" =>
             /\ succeeded(r)
             /\ Len(res[r][1].body.ranked_interpretations) = 5

\* C17 witness: the empty text with a valid image was answered with five
\* ranked interpretations.
C17_Witness ==
    \E r \in Requests :
        /\ passesGate(r)
        /\ req[r].body.text = Str(EmptyText)
        /\ pc[r] = "done"
        /\ Len(res[r][1].body.ranked_interpretations) = 5

\* hyp has the name of a detected architectural style as a substring.
namesStyle(hyp, cues) ==
    \E style \in Range(cues.architecturalStyle) :
        \E i \in 0..(Len(hyp) - Len(style)) :
            \A j \in 1..Len(style) : hyp[i + j] = style[j]

\* n is the integer nearest to v / Unit, halves going up.
nearest(n, v) == 2 * Unit * n - Unit <= 2 * v /\ 2 * v < 2 * Unit * n + Unit

\* C20: the score map has one entry for each hypothesis, in their order,
\* and the score of a hypothesis is a base value from 60 up to 90, plus 10
\* exactly when a detected style name is a substring of the hypothesis,
\* clamped to [50, 95] and then rounded to the nearest integer; nothing of
\* the other hypotheses enters it.
C20_ScoreOfOne ==
    \A r \in Requests : verified(r) =>
        LET scores == verificationAnalysis[r].scores
            cues == visualAnalysis[r].cues
        IN  /\ Len(scores) = Len(hypotheses[r])
            /\ \A i \in 1..Len(scores) :
                 /\ scores[i][1] = hypotheses[r][i]
                 /\ \E draw \in randomValues :
                      LET base == 60 * Unit + draw
                          sum == IF namesStyle(scores[i][1], cues)
                                 THEN base + 10 * Unit ELSE base
                          clamped == IF sum > 95 * Unit THEN 95 * Unit
                                     ELSE IF sum < 50 * Unit THEN 50 * Unit
                                     ELSE sum
                      IN  /\ 60 * Unit <= base /\ base < 90 * Unit
                          /\ nearest(scores[i][2], clamped)

\* C20 witness: one score map holds a hypothesis that names a detected
\* style, scored above 90, and one that names none, scored 60.
C20_Witness ==
    \E r \in Requests :
        /\ verified(r)
        /\ \E i, j \in 1..Len(verificationAnalysis[r].scores) :
             LET scores == verificationAnalysis[r].scores
             IN  /\ namesStyle(scores[i][1], visualAnalysis[r].cues)
                 /\ scores[i][2] > 90
                 /\ ~namesStyle(scores[j][1], visualAnalysis[r].cues)
                 /\ scores[j][2] = 60

-----------------------------------------------------------------------------
(* Requests side by side *)

\* Request r is between two stages of the pipeline.
inFlight(r) ==
    pc[r] \in {"classify", "hypotheses", "evidence", "architectural",
               "cultural", "verify", "rank", "respond"}

\* C18: with the steps of several requests interleaved, the cues, the
\* hypotheses, the gate outcome and the response flags of each request are
\* what its own image and text give when it runs alone; a step of one
\* request changes nothing of another.
C18_NoSharedState ==
    \A r \in Requests :
        /\ extracted(r) => visualAnalysis[r].cues = extractCues(imageOf(r))
        /\ generated(r) =>
             hypotheses[r]
               = generateHypotheses(extractCues(imageOf(r)), req[r].body.text.s)
        /\ (gated(r) /\ pc[r] = "done") =>
             /\ answered(r, 200)
             /\ res[r][1].body.is_valid
             /\ res[r][1].body.is_heritage <=> ~hasKeyword(req[r].body.text.s)
             /\ turnedDown(r) <=> hasKeyword(req[r].body.text.s)
             /\ succeeded(r) <=> ~hasKeyword(req[r].body.text.s)
        /\ (validImage(r) /\ ~gated(r) /\ pc[r] = "done") =>
             /\ answered(r, 500)
             /\ ~res[r][1].body.is_valid
             /\ ~res[r][1].body.is_heritage
        /\ \A q \in Requests :
             (pc[q] \in {"entry", "checkImage", "validate", "visual"}) =>
                 /\ visualAnalysis[q] = none
                 /\ hypotheses[q] = << >>
                 /\ res[q] = << >>

\* C18 witness: one request was answered with the full analysis while
\* another, with another image and other cues, was between two stages.
C18_Witness ==
    \E r1, r2 \in Requests :
        /\ pc[r1] = "done" /\ succeeded(r1)
        /\ inFlight(r2)
        /\ imageOf(r1) # imageOf(r2)
        /\ visualAnalysis[r1].cues # visualAnalysis[r2].cues

-----------------------------------------------------------------------------
(* The order of the stages *)

\* The stages of a request that is answered with the full analysis.
StageOrder ==
    <<"destructure", "checkImage", "validate", "visual", "classify",
      "hypotheses", "evidence", "architectural", "cultural", "verify",
      "rank", "respond">>

\* The stages request r has run are the first ones of StageOrder, in that
\* order, with the catch block behind them if a stage threw.
inOrder(r) ==
    LET run == stages[r]
        n == IF Len(run) > 0 /\ run[Len(run)] = "catch"
             THEN Len(run) - 1 ELSE Len(run)
    IN  /\ n <= Len(StageOrder)
        /\ \A i \in 1..n : run[i] = StageOrder[i]

\* A response without is_valid or without is_heritage was the last thing
\* request r did: no stage ran behind the one that sent it.
endedBy(r) ==
    \A k \in 1..Len(res[r]) :
        (~res[r][k].body.is_valid \/ ~res[r][k].body.is_heritage) =>
            /\ pc[r] = "done"
            /\ stages[r][Len(stages[r])]
                 \in {"checkImage", "validate", "classify", "catch"}
            /\ res[r][k].status = 400 =>
                 /\ visualAnalysis[r] = none
                 /\ stages[r][Len(stages[r])] \in {"checkImage", "validate"}
            /\ res[r][k].status = 200 =>
                 /\ stages[r][Len(stages[r])] = "classify"
                 /\ hypotheses[r] = << >>
                 /\ verificationAnalysis[r] = none
                 /\ rankedInterpretations[r] = << >>

\* C19: within one request the stages run in the order validate, extract
\* cues, classify, generate hypotheses, synthesize evidence, three agents,
\* rank; a failure at validation or a rejection at the gate ends the request
\* and no later stage runs; and on every path the handler sends exactly one
\* response: it has no await and no loop, every step it takes is one more
\* stage of StageOrder (or the catch block), so it comes to its end, and at
\* its end one response has been sent.
C19_InOrderThenOneResponse ==
    \A r \in Requests :
        /\ inOrder(r)
        /\ endedBy(r)
        /\ Len(stages[r]) <= Len(StageOrder)
        /\ Len(res[r]) <= 1
        /\ finished(r) => Len(res[r]) = 1

-----------------------------------------------------------------------------
(* The ranking as a selection *)

\* The position of hyp in the hypotheses of request r.
generationIndex(r, hyp) ==
    CHOOSE i \in 1..Len(hypotheses[r]) : hypotheses[r][i] = hyp

\* The score verifyAndRank stored for hyp in request r.
scoreOf(r, hyp) ==
    LET scores == verificationAnalysis[r].scores
    IN  scores[CHOOSE i \in 1..Len(scores) : scores[i][1] = hyp][2]

\* Hypothesis number i of request r goes before number j: its score is
\* higher, or the scores are equal and it was generated earlier.
goesBefore(r, i, j) ==
    LET si == scoreOf(r, hypotheses[r][i])
        sj == scoreOf(r, hypotheses[r][j])
    IN  si > sj \/ (si = sj /\ i < j)

\* C21: hypotheses of equal confidence are ranked in the order they were
\* generated in, so the ranking is determined by the hypotheses and the
\* scores: the entry at position k is the hypothesis that exactly k - 1
\* others go before, by higher score or by equal score and earlier
\* generation.
C21_TiesInGenerationOrder ==
    \A r \in Requests : ranked(r) =>
        LET list == rankedInterpretations[r]
        IN  /\ \A i, j \in 1..Len(list) :
                 (i < j /\ list[i].confidence = list[j].confidence) =>
                     generationIndex(r, list[i].hypothesis)
                       < generationIndex(r, list[j].hypothesis)
            /\ \A k \in 1..Len(list) :
                 LET n == generationIndex(r, list[k].hypothesis)
                 IN  Cardinality({m \in 1..Len(hypotheses[r]) :
                                    goesBefore(r, m, n)}) = k - 1

\* C21 witness: a ranking was sent in which two neighbours have the same
\* confidence and a hypothesis generated later stands above one generated
\* earlier.
C21_Witness ==
    \E r \in Requests :
        /\ pc[r] = "done" /\ succeeded(r)
        /\ LET list == rankedInterpretations[r]
           IN  /\ \E i \in 1..(Len(list) - 1) :
                    list[i].confidence = list[i + 1].confidence
               /\ \E i \in 1..(Len(list) - 1) :
                    generationIndex(r, list[i].hypothesis)
                      > generationIndex(r, list[i + 1].hypothesis)

\* C22: the ranking is a top-5 selection of the verification scores: each
\* ranked hypothesis is one of the generated hypotheses and is ranked once,
\* its confidence is the score verifyAndRank stored for it, the ranking
\* holds five of them (all when there are fewer), and every generated
\* hypothesis left out has a score no greater than the lowest ranked
\* confidence.
C22_TopFiveOfScores ==
    \A r \in Requests : ranked(r) =>
        LET list == rankedInterpretations[r]
            chosen == {list[i].hypothesis : i \in 1..Len(list)}
        IN  /\ chosen \subseteq Range(hypotheses[r])
            /\ Cardinality(chosen) = Len(list)
            /\ Len(list) = Min(5, Len(hypotheses[r]))
            /\ \A i \in 1..Len(list) :
                 list[i].confidence = scoreOf(r, list[i].hypothesis)
            /\ \A hyp \in Range(hypotheses[r]) \ chosen :
                 \A i \in 1..Len(list) : scoreOf(r, hyp) <= list[i].confidence

\* C22 witness: of eight hypotheses, five were ranked and one left out has a
\* lower score than the last one ranked, while a location hypothesis made
\* it into the ranking.
C22_Witness ==
    \E r \in Requests :
        /\ pc[r] = "done" /\ succeeded(r)
        /\ Len(hypotheses[r]) = 8
        /\ Len(rankedInterpretations[r]) = 5
        /\ \E hyp \in Range(hypotheses[r]) :
             scoreOf(r, hyp) < rankedInterpretations[r][5].confidence
        /\ \E i \in 1..5 :
             generationIndex(r, rankedInterpretations[r][i].hypothesis) > 5

\* The templates that interpolate architecturalStyle[0]: the gopuram, the
\* material and style, and the fortress template.
StyleTemplates == {1, 2, 5}

\* C23: the lower clamp bound is never reached: every stored score and
\* every emitted confidence is at least 60, and the three template
\* hypotheses that interpolate the first detected style always get the 10
\* for the style and so a confidence from 70 to 95.
C23_AtLeastSixty ==
    \A r \in Requests :
        /\ \A c \in emitted(r) : c >= 60
        /\ verified(r) =>
             /\ \A i \in 1..Len(verificationAnalysis[r].scores) :
                  verificationAnalysis[r].scores[i][2] >= 60
             /\ \A i \in StyleTemplates :
                  /\ namesStyle(hypotheses[r][i], visualAnalysis[r].cues)
                  /\ scoreOf(r, hypotheses[r][i]) \in 70..95

\* C23 witness: with the least draw, a template that interpolates the style
\* was scored 70 and another hypothesis 60, and both were sent.
C23_Witness ==
    \E r \in Requests :
        /\ pc[r] = "done" /\ succeeded(r)
        /\ 0 \in randomValues
        /\ scoreOf(r, hypotheses[r][1]) = 70
        /\ \E i \in 1..Len(hypotheses[r]) : scoreOf(r, hypotheses[r][i]) = 60
        /\ {60, 70} \subseteq emitted(r)

-----------------------------------------------------------------------------
(* The form and the server *)

\* The image of request r is the data URL the form made of a file it
\* accepted.
uploaded(r) ==
    /\ req[r].body.kind = "object"
    /\ req[r].body.image.kind = "string"
    /\ imageOf(r) \in UploadedImages

\* C24: the size checks of the form and of the server agree: every file the
\* form accepts (type starting with "image/", size at most 5 * 1024 * 1024
\* bytes), sent as the data URL the form makes of it, passes validateImage
\* and is never answered with the too-large error.
C24_FormAndServerAgree ==
    \A r \in Requests : (finished(r) /\ uploaded(r)) =>
        /\ validateImage(req[r].body.image).value.valid
        /\ ~tooLargeAnswer(r)
        /\ ~answered(r, 400)

====
